---- MODULE Spec2Model ----
(***************************************************************************)
(* A state-machine model of CacheD (SarthakMakhija/cacheD): the facade of  *)
(* src/src/cache/cached.rs, the command worker of                          *)
(* src/src/cache/command/command_executor.rs, the stored value of          *)
(* src/src/cache/store/stored_value.rs, and the collaborators whose code   *)
(* is outside src/ (Store, AdmissionPolicy, TTLTicker, Pool, Clock), which *)
(* are written from spec.md sections 4.1-4.6 and from the tests in src/.   *)
(***************************************************************************)
EXTENDS Integers, Sequences, FiniteSets, TLC

(***************************************************************************)
(* Bounds of the model.                                                    *)
(***************************************************************************)
\* total_cache_weight of the configuration (scaled down from the tests' 100)
TotalCacheWeight == 3
\* commands (and therefore acknowledgements and key_ids) created in one run
MaxCmds == 2
\* capacity of the bounded command channel (command_buffer_size)
CommandBufferSize == 2
\* accesses recorded by the pool in one run
MaxAccesses == 1
\* largest value of the injected clock
MaxClock == 2

Callers == {"c1", "c2"}
Keys == {"topic", "disk"}
Values == {"v1", "v2"}
\* weights a caller supplies or the weight calculation returns; 0 is the
\* programmer error, TotalCacheWeight + 1 the candidate that can never fit
Weights == {0, 1, 2, TotalCacheWeight + 1}
\* time-to-live durations a caller supplies
Durations == {1}

(***************************************************************************)
(* Option values: None is the empty set, Some(x) the singleton.            *)
(***************************************************************************)
None == {}
Some(x) == {x}
Unwrap(o) == CHOOSE x \in o : TRUE

VARIABLES
    is_shutting_down,   \* CacheD.is_shutting_down
    keep_running,       \* CommandExecutor.keep_running
    store,              \* Store: key -> Option<StoredValue>
    soft_deleted,       \* Store: keys marked deleted (mark_deleted)
    key_weights,        \* AdmissionPolicy: key_id -> (key, weight)
    weight_used,        \* AdmissionPolicy: cached sum of the weights
    keys_rejected,      \* ConcurrentStatsCounter.keys_rejected
    ttl,                \* TTLTicker: set of <<key_id, expire_after>>
    ttl_running,        \* TTLTicker scan thread is alive
    channel,            \* crossbeam channel: Seq of (command, acknowledgement)
    receiver_dropped,   \* the worker dropped the receiver
    acks,               \* acknowledgements, in creation order: their status
    worker,             \* the worker thread: pc, the pair of its latest
                        \* iteration and the status it completed it with
    next_id,            \* IncreasingIdGenerator
    pc,                 \* caller -> position in its current call
    local,              \* caller -> locals of its current call
    ret,                \* what the step just taken returned to a caller of a
                        \* mutator or of shutdown, NoReturn if it returned nothing
    pool,               \* Pool: the access buffer
    freq,               \* frequency estimate per key hash
    now                 \* the injected Clock

vars == <<is_shutting_down, keep_running, store, soft_deleted, key_weights, weight_used,
          keys_rejected, ttl, ttl_running, channel, receiver_dropped, acks,
          worker, next_id, pc, local, ret, pool, freq, now>>

(***************************************************************************)
(* key_hash_fn of the configuration: the hashes of the sociable test.      *)
(***************************************************************************)
KeyHash(k) == IF k = "topic" THEN 10 ELSE 14

Hashes == {KeyHash(k) : k \in Keys}

(***************************************************************************)
(* Clock (spec.md 2, component 1): "has the given instant passed?".        *)
(***************************************************************************)
HasPassed(time) == now > time

(***************************************************************************)
(* StoredValue (src/src/cache/store/stored_value.rs).                      *)
(***************************************************************************)
NeverExpiring(value, key_id) ==
    [value |-> value, key_id |-> key_id, expire_after |-> None]

Expiring(value, key_id, time_to_live) ==
    [value |-> value, key_id |-> key_id, expire_after |-> Some(now + time_to_live)]

\* a stored value that never consults the clock
IsAliveAlways(stored_value) == TRUE

IsAlive(stored_value) ==
    IF stored_value.expire_after # None
    THEN ~HasPassed(Unwrap(stored_value.expire_after))
    ELSE TRUE

(***************************************************************************)
(* Store (spec.md 4.4).  Each operator gives the store after the call.     *)
(***************************************************************************)
StorePut(st, key, value, key_id) ==
    [st EXCEPT ![key] = Some(NeverExpiring(value, key_id))]

StorePutWithTtl(st, key, value, key_id, time_to_live) ==
    [st EXCEPT ![key] = Some(Expiring(value, key_id, time_to_live))]

\* get / get_ref: a miss for an absent, a marked-deleted or an expired entry
StoreGetRef(key) ==
    IF store[key] # None /\ key \notin soft_deleted /\ IsAlive(Unwrap(store[key]))
    THEN store[key]
    ELSE None

StoreGet(key) ==
    IF StoreGetRef(key) # None THEN Some(Unwrap(StoreGetRef(key)).value) ELSE None

\* mark_deleted: flags a present entry, nothing for an absent key
MarkDeleted(sd, st, key) == IF st[key] # None THEN sd \cup {key} ELSE sd

\* delete: the (key_id, expire_after) of the removed entry, if there was one
StoreDeleteResult(st, key) ==
    IF st[key] # None
    THEN Some(<<Unwrap(st[key]).key_id, Unwrap(st[key]).expire_after>>)
    ELSE None

StoreDelete(st, key) == [st EXCEPT ![key] = None]

StoreDeleteKeys(st, keys) == [k \in Keys |-> IF k \in keys THEN None ELSE st[k]]

(***************************************************************************)
(* Frequency sketch and access pool (spec.md 4.1, 4.3).  freq[h] is the    *)
(* sketch's state for hash h: its doorkeeper bit and its saturating        *)
(* counter (the rows of the sketch are taken not to collide).              *)
(***************************************************************************)
MaxEstimate == 15

NoFrequency == [doorkeeper |-> FALSE, counter |-> 0]

\* estimate(hash): the counter plus the doorkeeper bit, clamped
Estimate(fr, hash) ==
    LET sum == fr[hash].counter + (IF fr[hash].doorkeeper THEN 1 ELSE 0)
    IN  IF sum < MaxEstimate THEN sum ELSE MaxEstimate

\* a sketch without a doorkeeper: every observation bumps the counter
IncrementCounterAlways(fr, hash) ==
    [fr EXCEPT ![hash].counter = IF @ < MaxEstimate THEN @ + 1 ELSE @]

\* increment(hash): the first observation only sets the doorkeeper bit, the
\* later ones bump the counter
Increment(fr, hash) ==
    IF ~fr[hash].doorkeeper
    THEN [fr EXCEPT ![hash].doorkeeper = TRUE]
    ELSE [fr EXCEPT ![hash].counter = IF @ < MaxEstimate THEN @ + 1 ELSE @]

RECURSIVE Accept(_, _)
Accept(fr, batch) ==
    IF batch = <<>> THEN fr ELSE Accept(Increment(fr, Head(batch)), Tail(batch))

RECURSIVE SumOver(_, _)
SumOver(f, S) ==
    IF S = {} THEN 0
    ELSE LET x == CHOOSE y \in S : TRUE IN f[x] + SumOver(f, S \ {x})

AccessesRecorded ==
    SumOver([h \in Hashes |-> Estimate(freq, h)], Hashes) + Len(pool)

(***************************************************************************)
(* Admission policy (spec.md 4.2): the Key-Weight Table kw maps a key_id   *)
(* to the key (handed to the delete hook) and its weight; wu is the cached *)
(* weight_used.                                                            *)
(***************************************************************************)
SampleSize == 5

Contains(kw, key_id) == key_id \in DOMAIN kw

WeightOf(kw, key_id) == IF Contains(kw, key_id) THEN Some(kw[key_id].weight) ELSE None

Without(kw, key_id) == [i \in DOMAIN kw \ {key_id} |-> kw[i]]

With(kw, key_id, key, weight) ==
    [i \in DOMAIN kw \cup {key_id} |->
        IF i = key_id THEN [key |-> key, weight |-> weight] ELSE kw[i]]

Min(a, b) == IF a < b THEN a ELSE b

\* a draw that waits for a full sample: no sample while fewer than SampleSize
\* keys are resident
SamplesOfFullSize(kw) ==
    {s \in SUBSET DOMAIN kw : Cardinality(s) = SampleSize}

\* the samples victim selection may draw: SampleSize residents, or all of them
Samples(kw) ==
    {s \in SUBSET DOMAIN kw : Cardinality(s) = Min(SampleSize, Cardinality(DOMAIN kw))}

\* the sample member with the lowest estimate, the lowest key_id on a tie
MinFrequencyKey(fr, kw, sample) ==
    CHOOSE v \in sample : \A o \in sample :
        \/ Estimate(fr, KeyHash(kw[v].key)) < Estimate(fr, KeyHash(kw[o].key))
        \/ /\ Estimate(fr, KeyHash(kw[v].key)) = Estimate(fr, KeyHash(kw[o].key))
           /\ v <= o

\* a comparison that also keeps a victim estimated as frequent as the candidate
VictimStaysOnTie(victim_frequency, candidate_frequency) ==
    victim_frequency >= candidate_frequency

\* the candidate loses against a victim that is estimated more frequent
\* (equal estimates evict: sociable_tests::puts_a_key_value_by_eliminating_victims)
VictimStays(victim_frequency, candidate_frequency) ==
    victim_frequency > candidate_frequency

\* step 4 of maybe_add: the outcomes of victim selection, one per run of samples;
\* evicted collects the keys handed to the delete hook
RECURSIVE CreateSpace(_, _, _, _, _)
CreateSpace(fr, kw, wu, evicted, candidate) ==
    IF candidate.weight <= TotalCacheWeight - wu \/ DOMAIN kw = {}
    THEN {[status |-> "Accepted", kw |-> kw, wu |-> wu, evicted |-> evicted]}
    ELSE UNION {
        LET victim == MinFrequencyKey(fr, kw, sample) IN
        IF VictimStays(Estimate(fr, KeyHash(kw[victim].key)),
                       Estimate(fr, KeyHash(candidate.key)))
        THEN {[status |-> "Rejected", kw |-> kw, wu |-> wu, evicted |-> evicted]}
        ELSE CreateSpace(fr, Without(kw, victim), wu - kw[victim].weight,
                         evicted \cup {kw[victim].key}, candidate)
        : sample \in Samples(kw)}

\* maybe_add(candidate, delete_hook): the set of possible outcomes
MaybeAdd(fr, kw, wu, candidate) ==
    IF candidate.weight > TotalCacheWeight
    THEN {[status |-> "Rejected", kw |-> kw, wu |-> wu, evicted |-> {}]}
    ELSE IF Contains(kw, candidate.id)
    THEN {[status |-> "Accepted",
           kw |-> With(kw, candidate.id, candidate.key, candidate.weight),
           wu |-> wu + candidate.weight - kw[candidate.id].weight,
           evicted |-> {}]}
    ELSE {[status |-> o.status,
           kw |-> IF o.status = "Accepted"
                  THEN With(o.kw, candidate.id, candidate.key, candidate.weight)
                  ELSE o.kw,
           wu |-> IF o.status = "Accepted" THEN o.wu + candidate.weight ELSE o.wu,
           evicted |-> o.evicted]
          : o \in CreateSpace(fr, kw, wu, {}, candidate)}

\* delete(key_id) and delete_with_hook(key_id, hook): the table, weight_used
PolicyDeleteKw(kw, key_id) == IF Contains(kw, key_id) THEN Without(kw, key_id) ELSE kw

PolicyDeleteWu(kw, wu, key_id) ==
    IF Contains(kw, key_id) THEN wu - kw[key_id].weight ELSE wu

\* the keys delete_with_hook hands to its hook
PolicyDeleteHooked(kw, key_id) == IF Contains(kw, key_id) THEN {kw[key_id].key} ELSE {}

\* update(key_id, weight): the UpdateWeight command's call into the policy
PolicyUpdateKw(kw, key_id, weight) ==
    IF Contains(kw, key_id) THEN With(kw, key_id, kw[key_id].key, weight) ELSE kw

PolicyUpdateWu(kw, wu, key_id, weight) ==
    IF Contains(kw, key_id) THEN wu + weight - kw[key_id].weight ELSE wu

(***************************************************************************)
(* TTL ticker (spec.md 4.5): a set of <<key_id, expire_after>> mappings.   *)
(***************************************************************************)
TtlPut(t, key_id, expire_after) == t \cup {<<key_id, expire_after>>}

TtlDelete(t, key_id, expire_after) == t \ {<<key_id, expire_after>>}

TtlUpdate(t, key_id, old_expiry, new_expiry) ==
    TtlPut(TtlDelete(t, key_id, old_expiry), key_id, new_expiry)

TtlGet(t, key_id, expire_after) ==
    IF <<key_id, expire_after>> \in t THEN Some(expire_after) ELSE None

(***************************************************************************)
(* Configuration (ConfigBuilder) of the modelled cache.                    *)
(***************************************************************************)
\* access_buffer_size: a buffer of one access drains on every recorded hit
AccessBufferSize == 1

\* Calculation::ttl_ticker_entry_size(), scaled to the model's weights
TtlTickerEntrySize == 1

(***************************************************************************)
(* Commands, acknowledgements, returns.                                    *)
(***************************************************************************)
Command(type, key, id, weight, value, time_to_live) ==
    [type |-> type, key |-> key, id |-> id, weight |-> weight,
     value |-> value, ttl |-> time_to_live]

NoPair == [command |-> Command("-", "-", 0, 0, "-", None), ack |-> 0]

Worker(position, pair, status) == [pc |-> position, pair |-> pair, status |-> status]

NoLocal == [op |-> "-", key |-> "-", key_id |-> 0, expiry_update |-> "-",
            old_expiry |-> None, new_expiry |-> None, updated_weight |-> None]

\* UpsertRequestBuilder::build
UpsertRequest(key, value, weight, time_to_live, remove_time_to_live) ==
    [key |-> key, value |-> value, weight |-> weight,
     time_to_live |-> time_to_live, remove_time_to_live |-> remove_time_to_live]

NoRequest == UpsertRequest("-", None, None, None, FALSE)

\* what a step handed back to its caller, and the upsert request it took
Returned(op, res) == [op |-> op, res |-> res, request |-> NoRequest]

NoReturn == Returned("-", "-")

PutOps == {"put", "put_with_weight", "put_with_ttl", "put_with_weight_and_ttl"}

\* the positions of a caller inside a mutating call
MutatorPcs == {"put_checked", "delete_checked", "upsert_checked", "upsert_updated"}

\* the bound on the commands of one run: a mutating call starts only while
\* the commands created and the calls under way stay below MaxCmds
CanStart ==
    Len(acks) + Cardinality({c \in Callers : pc[c] \in MutatorPcs}) < MaxCmds

Init ==
    /\ is_shutting_down = FALSE
    /\ keep_running = TRUE
    /\ store = [k \in Keys |-> None]
    /\ soft_deleted = {}
    /\ key_weights = <<>>
    /\ weight_used = 0
    /\ keys_rejected = 0
    /\ ttl = {}
    /\ ttl_running = TRUE
    /\ channel = <<>>
    /\ receiver_dropped = FALSE
    /\ acks = <<>>
    /\ worker = Worker("recv", NoPair, "-")
    /\ next_id = 1
    /\ pc = [c \in Callers |-> "idle"]
    /\ local = [c \in Callers |-> NoLocal]
    /\ ret = NoReturn
    /\ pool = <<>>
    /\ freq = [h \in Hashes |-> NoFrequency]
    /\ now = 0

(***************************************************************************)
(* Building blocks of the callers' actions.                                *)
(***************************************************************************)
\* the call of caller c returns res
ReturnFor(c, op, res, request) ==
    /\ pc' = [pc EXCEPT ![c] = "idle"]
    /\ local' = [local EXCEPT ![c] = NoLocal]
    /\ ret' = [Returned(op, res) EXCEPT !.request = request]

Return(c, op, res) == ReturnFor(c, op, res, NoRequest)

\* CommandExecutor::send: Err once the receiver is dropped, else the pair is
\* queued (blocking while the bounded channel is full) and Ok(ack) returned
SendFor(c, op, command, request) ==
    IF receiver_dropped
    THEN /\ UNCHANGED <<channel, acks>>
         /\ ReturnFor(c, op, "Err", request)
    ELSE /\ Len(channel) < CommandBufferSize
         /\ channel' = Append(channel, [command |-> command, ack |-> Len(acks) + 1])
         /\ acks' = Append(acks, "Pending")
         /\ ReturnFor(c, op, "Ok", request)

Send(c, op, command) == SendFor(c, op, command, NoRequest)

\* Pool::add: the access joins the buffer; a full buffer is drained into the
\* sketch.  Past MaxAccesses the (lossy) pool drops the access.
PoolAddTo(hash, access_buffer_size, max_accesses) ==
    IF AccessesRecorded < max_accesses
    THEN IF Len(pool) + 1 >= access_buffer_size
         THEN /\ freq' = Accept(freq, Append(pool, hash))
              /\ pool' = <<>>
         ELSE /\ pool' = Append(pool, hash)
              /\ freq' = freq
    ELSE UNCHANGED <<pool, freq>>

PoolAdd(hash) == PoolAddTo(hash, AccessBufferSize, MaxAccesses)

cacheState == <<store, soft_deleted, key_weights, weight_used, keys_rejected, ttl>>
flags == <<is_shutting_down, keep_running, ttl_running>>

(***************************************************************************)
(* CacheD: the put variants.  The arguments of a call are drawn where the  *)
(* code first uses them.                                                   *)
(***************************************************************************)
\* a put that sends whatever weight it is given
WeightUnchecked(weight) == TRUE

\* assert!(weight > 0): the weight passes the assertion
WeightIsValid(weight) == weight > 0

\* put: the calculated weight is asserted before put_with_weight checks the flag
Put(c) ==
    /\ pc[c] = "idle"
    /\ CanStart
    /\ UNCHANGED <<cacheState, flags, channel, receiver_dropped, acks, worker,
                   next_id, pool, freq, now>>
    /\ \E weight \in Weights :
        IF ~WeightIsValid(weight)
        THEN Return(c, "put", "Panic")
        ELSE IF is_shutting_down
        THEN Return(c, "put", "Err")
        ELSE /\ pc' = [pc EXCEPT ![c] = "put_checked"]
             /\ local' = [local EXCEPT ![c] = [NoLocal EXCEPT !.op = "put"]]
             /\ ret' = NoReturn

\* put_with_weight, put_with_ttl, put_with_weight_and_ttl: the flag comes first
PutVariant(c, op) ==
    /\ pc[c] = "idle"
    /\ CanStart
    /\ UNCHANGED <<cacheState, flags, channel, receiver_dropped, acks, worker,
                   next_id, pool, freq, now>>
    /\ IF is_shutting_down
       THEN Return(c, op, "Err")
       ELSE /\ pc' = [pc EXCEPT ![c] = "put_checked"]
            /\ local' = [local EXCEPT ![c] = [NoLocal EXCEPT !.op = op]]
            /\ ret' = NoReturn

\* a generator that hands out the same id again
NextKeyIdStuck(id) == id

\* id_generator.next(): the generator after it handed out id
NextKeyId(id) == id + 1

\* after the flag check: assert the weight, build the KeyDescription
\* (id_generator.next()) and send Put or PutWithTTL
PutSend(c) ==
    /\ pc[c] = "put_checked"
    /\ UNCHANGED <<cacheState, flags, receiver_dropped, worker, pool, freq, now>>
    /\ \E key \in Keys, value \in Values, weight \in Weights, d \in Durations :
        LET op == local[c].op
            time_to_live == IF op \in {"put_with_ttl", "put_with_weight_and_ttl"}
                            THEN Some(d) ELSE None
        IN  /\ op = "put" => weight > 0
            /\ IF ~WeightIsValid(weight)
               THEN /\ UNCHANGED <<channel, acks, next_id>>
                    /\ Return(c, op, "Panic")
               ELSE /\ next_id' = NextKeyId(next_id)
                    /\ Send(c, op,
                            Command(IF time_to_live = None THEN "Put" ELSE "PutWithTTL",
                                    key, next_id, weight, value, time_to_live))

(***************************************************************************)
(* CacheD::delete.                                                         *)
(***************************************************************************)
Delete(c) ==
    /\ pc[c] = "idle"
    /\ CanStart
    /\ UNCHANGED <<cacheState, flags, channel, receiver_dropped, acks, worker,
                   next_id, pool, freq, now>>
    /\ IF is_shutting_down
       THEN Return(c, "delete", "Err")
       ELSE /\ pc' = [pc EXCEPT ![c] = "delete_checked"]
            /\ local' = [local EXCEPT ![c] = [NoLocal EXCEPT !.op = "delete"]]
            /\ ret' = NoReturn

\* a delete that sends the command without marking the entry
DeleteWithoutMark(sd, st, key) == sd

\* self.store.mark_deleted(&key): the marked keys after the call
DeleteMarks(sd, st, key) == MarkDeleted(sd, st, key)

\* store.mark_deleted(&key), then send Delete(key)
DeleteSend(c) ==
    /\ pc[c] = "delete_checked"
    /\ UNCHANGED <<store, key_weights, weight_used, keys_rejected, ttl, flags,
                   receiver_dropped, worker, next_id, pool, freq, now>>
    /\ \E key \in Keys :
        /\ soft_deleted' = DeleteMarks(soft_deleted, store, key)
        /\ Send(c, "delete", Command("Delete", key, 0, 0, "-", None))

(***************************************************************************)
(* CacheD's reads.  What a read returns is a function of the state; the    *)
(* only state a read changes is the access pool (mark_key_accessed).       *)
(***************************************************************************)
total_weight_used == weight_used

get(key) == IF is_shutting_down THEN None ELSE StoreGet(key)

get_ref(key) == IF is_shutting_down THEN None ELSE StoreGetRef(key)

\* the caller's map_fn
MapFn(value) == <<"mapped", value>>

map_get(key) ==
    IF is_shutting_down THEN None ELSE {MapFn(value) : value \in get(key)}

map_get_ref(key) ==
    IF is_shutting_down THEN None ELSE {MapFn(value_ref) : value_ref \in get_ref(key)}

\* the map of the given keys; the empty map while shutting down
multi_get(keys) ==
    IF is_shutting_down THEN <<>> ELSE [key \in keys |-> get(key)]

\* MultiGetIterator::next over the keys still to visit: None ends the iteration
MultiGetIteratorNext(keys) ==
    IF keys = <<>> \/ is_shutting_down THEN None ELSE Some(get(Head(keys)))

\* a read by any thread: a hit records the access
Get ==
    /\ UNCHANGED <<cacheState, flags, channel, receiver_dropped, acks, worker,
                   next_id, pc, local, now>>
    /\ ret' = NoReturn
    /\ \E key \in Keys :
        IF get(key) # None THEN PoolAdd(KeyHash(key)) ELSE UNCHANGED <<pool, freq>>

GetRef ==
    /\ UNCHANGED <<cacheState, flags, channel, receiver_dropped, acks, worker,
                   next_id, pc, local, now>>
    /\ ret' = NoReturn
    /\ \E key \in Keys :
        IF get_ref(key) # None THEN PoolAdd(KeyHash(key)) ELSE UNCHANGED <<pool, freq>>

(***************************************************************************)
(* CacheD::upsert.                                                         *)
(***************************************************************************)
Option(S) == {None} \cup {Some(x) : x \in S}

Upsert(c) ==
    /\ pc[c] = "idle"
    /\ CanStart
    /\ UNCHANGED <<cacheState, flags, channel, receiver_dropped, acks, worker,
                   next_id, pool, freq, now>>
    /\ IF is_shutting_down
       THEN Return(c, "upsert", "Err")
       ELSE /\ pc' = [pc EXCEPT ![c] = "upsert_checked"]
            /\ local' = [local EXCEPT ![c] = [NoLocal EXCEPT !.op = "upsert"]]
            /\ ret' = NoReturn

\* Store::update(key, value, time_to_live, remove_time_to_live) on a present
\* entry: the entry after the in-place update
StoreUpdated(stored_value, value, time_to_live, remove_time_to_live) ==
    [value |-> IF value # None THEN Unwrap(value) ELSE stored_value.value,
     key_id |-> stored_value.key_id,
     expire_after |-> IF remove_time_to_live THEN None
                      ELSE IF time_to_live # None THEN Some(now + Unwrap(time_to_live))
                      ELSE stored_value.expire_after]

\* TypeOfExpiryUpdate of the update response
ExpiryUpdate(stored_value, time_to_live, remove_time_to_live) ==
    IF remove_time_to_live
    THEN IF stored_value.expire_after # None THEN "Deleted" ELSE "Unchanged"
    ELSE IF time_to_live # None
    THEN IF stored_value.expire_after # None THEN "Updated" ELSE "Added"
    ELSE "Unchanged"

\* an upsert that takes the request of an absent key for a put, value or not
UpsertValueUnchecked(value) == TRUE

\* assert!(value.is_some(), Errors::UpsertValueMissing)
UpsertValuePresent(value) == value # None

\* value.unwrap() and updated_weight.unwrap()
ValueOf(value) == IF value # None THEN Unwrap(value) ELSE "-"
WeightOfRequest(updated_weight) ==
    IF updated_weight # None THEN Unwrap(updated_weight) ELSE 0

\* an updated_weight that prefers the calculated weight to the request's
UpdatedWeightCalculatedFirst(request, calculated) ==
    IF request.value # None THEN Some(calculated) ELSE request.weight

\* UpsertRequest::updated_weight; calculated is what weight_calculation_fn
\* answers when or_else calls it
UpdatedWeight(request, calculated) ==
    IF request.weight # None THEN request.weight
    ELSE IF request.value # None THEN Some(calculated)
    ELSE None

\* request.updated_weight, store.update, and for an absent key the put
UpsertUpdate(c) ==
    /\ pc[c] = "upsert_checked"
    /\ UNCHANGED <<key_weights, weight_used, keys_rejected, ttl, flags,
                   receiver_dropped, worker, pool, freq, now>>
    /\ \E key \in Keys, value \in Option(Values), weight \in Option(Weights),
          calculated \in Weights,
          time_to_live \in Option(Durations), remove_time_to_live \in BOOLEAN :
       LET request == UpsertRequest(key, value, weight, time_to_live,
                                    remove_time_to_live)
           updated_weight == UpdatedWeight(request, calculated)
       IN
        /\ value = None => calculated = 0
        /\ remove_time_to_live => time_to_live = None
        /\ IF store[key] = None
           THEN /\ UNCHANGED <<store, soft_deleted>>
                /\ IF ~UpsertValuePresent(value)
                   THEN /\ UNCHANGED <<channel, acks, next_id>>
                        /\ Return(c, "upsert", "PanicValueMissing")
                   ELSE IF WeightOfRequest(updated_weight) <= 0
                   THEN /\ UNCHANGED <<channel, acks, next_id>>
                        /\ Return(c, "upsert", "Panic")
                   ELSE IF is_shutting_down
                   THEN /\ UNCHANGED <<channel, acks, next_id>>
                        /\ Return(c, "upsert", "Err")
                   ELSE /\ next_id' = NextKeyId(next_id)
                        /\ SendFor(c, "upsert",
                                   Command(IF time_to_live = None THEN "Put" ELSE "PutWithTTL",
                                           key, next_id, WeightOfRequest(updated_weight),
                                           ValueOf(value), time_to_live),
                                   request)
           ELSE /\ store' = [store EXCEPT ![key] =
                       Some(StoreUpdated(Unwrap(store[key]), value, time_to_live,
                                         remove_time_to_live))]
                /\ UNCHANGED <<soft_deleted, channel, acks, next_id>>
                /\ ret' = [NoReturn EXCEPT !.request = request]
                /\ pc' = [pc EXCEPT ![c] = "upsert_updated"]
                /\ local' = [local EXCEPT ![c] =
                       [op |-> "upsert", key |-> key,
                        key_id |-> Unwrap(store[key]).key_id,
                        expiry_update |-> ExpiryUpdate(Unwrap(store[key]), time_to_live,
                                                       remove_time_to_live),
                        old_expiry |-> Unwrap(store[key]).expire_after,
                        new_expiry |-> IF time_to_live # None
                                       THEN Some(now + Unwrap(time_to_live)) ELSE None,
                        updated_weight |-> updated_weight]]

\* an upsert that lets the ticker-entry size of a TTL transition override the
\* request's weight
UpsertWeightDeltaFirst(l, kw) ==
    LET existing_weight == IF Contains(kw, l.key_id) THEN kw[l.key_id].weight ELSE 0 IN
    IF l.expiry_update = "Added" THEN Some(existing_weight + TtlTickerEntrySize)
    ELSE IF l.expiry_update = "Deleted" THEN Some(existing_weight - TtlTickerEntrySize)
    ELSE l.updated_weight

\* an upsert that sends the request's weight only, whatever became of the TTL
UpsertWeightOfRequestOnly(l, kw) == l.updated_weight

\* the weight upsert sends after an update: the request's, else the existing
\* weight (0 when the key_id is not in the table) moved by the ticker-entry size
UpsertWeight(l, kw) ==
    LET existing_weight == IF Contains(kw, l.key_id) THEN kw[l.key_id].weight ELSE 0 IN
    IF l.updated_weight # None THEN l.updated_weight
    ELSE IF l.expiry_update = "Added" THEN Some(existing_weight + TtlTickerEntrySize)
    ELSE IF l.expiry_update = "Deleted" THEN Some(existing_weight - TtlTickerEntrySize)
    ELSE None

\* an upsert that registers a replaced expiry without removing the old one
UpsertTtlKeepsOld(l, t) ==
    IF l.expiry_update \in {"Added", "Updated"} THEN TtlPut(t, l.key_id, Unwrap(l.new_expiry))
    ELSE IF l.expiry_update = "Deleted" THEN TtlDelete(t, l.key_id, Unwrap(l.old_expiry))
    ELSE t

\* the ticker after upsert reflected the expiry transition in it
UpsertTtl(l, t) ==
    IF l.expiry_update = "Added" THEN TtlPut(t, l.key_id, Unwrap(l.new_expiry))
    ELSE IF l.expiry_update = "Deleted" THEN TtlDelete(t, l.key_id, Unwrap(l.old_expiry))
    ELSE IF l.expiry_update = "Updated"
    THEN TtlUpdate(t, l.key_id, Unwrap(l.old_expiry), Unwrap(l.new_expiry))
    ELSE t

\* after store.update changed the entry: weight_of, the ticker, UpdateWeight
UpsertFinish(c) ==
    /\ pc[c] = "upsert_updated"
    /\ UNCHANGED <<store, soft_deleted, key_weights, weight_used, keys_rejected,
                   flags, receiver_dropped, worker, next_id, pool, freq, now>>
    /\ ttl' = UpsertTtl(local[c], ttl)
    /\ LET weight == UpsertWeight(local[c], key_weights) IN
       IF weight = None
       THEN /\ UNCHANGED <<channel, acks>>
            /\ Return(c, "upsert", "OkAccepted")
       ELSE IF Unwrap(weight) <= 0
       THEN /\ UNCHANGED <<channel, acks>>
            /\ Return(c, "upsert", "Panic")
       ELSE Send(c, "upsert",
                 Command("UpdateWeight", local[c].key, local[c].key_id,
                         Unwrap(weight), "-", None))

(***************************************************************************)
(* CommandExecutor::send(CommandType::UpdateTTL(key, time_to_live)): the   *)
(* command has no facade method; the executor's client sends it directly.  *)
(***************************************************************************)
SendUpdateTTL(c) ==
    /\ pc[c] = "idle"
    /\ CanStart
    /\ UNCHANGED <<cacheState, flags, receiver_dropped, worker, next_id, pool,
                   freq, now>>
    /\ \E key \in Keys, d \in Durations :
        Send(c, "update_ttl", Command("UpdateTTL", key, 0, 0, "-", Some(d)))

(***************************************************************************)
(* CacheD::shutdown.                                                       *)
(***************************************************************************)
\* the compare-exchange; the winner stops the executor and the ticker
Shutdown(c) ==
    /\ pc[c] = "idle"
    /\ UNCHANGED <<cacheState, channel, receiver_dropped, acks, worker, next_id,
                   pool, freq, now>>
    /\ IF is_shutting_down
       THEN /\ UNCHANGED flags
            /\ Return(c, "shutdown", "Done")
       ELSE /\ is_shutting_down' = TRUE
            /\ keep_running' = FALSE
            /\ ttl_running' = FALSE
            /\ pc' = [pc EXCEPT ![c] = "shutdown_clear_store"]
            /\ UNCHANGED local
            /\ ret' = NoReturn

ShutdownClearStore(c) ==
    /\ pc[c] = "shutdown_clear_store"
    /\ store' = [k \in Keys |-> None]
    /\ soft_deleted' = {}
    /\ pc' = [pc EXCEPT ![c] = "shutdown_clear_policy"]
    /\ UNCHANGED <<key_weights, weight_used, keys_rejected, ttl, flags, channel,
                   receiver_dropped, acks, worker, next_id, local, pool, freq, now>>
    /\ ret' = NoReturn

ShutdownClearPolicy(c) ==
    /\ pc[c] = "shutdown_clear_policy"
    /\ key_weights' = <<>>
    /\ weight_used' = 0
    /\ freq' = [h \in Hashes |-> NoFrequency]
    /\ pc' = [pc EXCEPT ![c] = "shutdown_clear_ttl"]
    /\ UNCHANGED <<store, soft_deleted, keys_rejected, ttl, flags, channel,
                   receiver_dropped, acks, worker, next_id, local, pool, now>>
    /\ ret' = NoReturn

ShutdownClearTtl(c) ==
    /\ pc[c] = "shutdown_clear_ttl"
    /\ ttl' = {}
    /\ Return(c, "shutdown", "Done")
    /\ UNCHANGED <<store, soft_deleted, key_weights, weight_used, keys_rejected,
                   flags, channel, receiver_dropped, acks, worker, next_id, pool,
                   freq, now>>

(***************************************************************************)
(* CommandExecutor: the worker thread of spin().                           *)
(***************************************************************************)
\* a worker that takes the pair enqueued last
WorkerRecvLast ==
    /\ worker.pc = "recv"
    /\ channel # <<>>
    /\ worker' = Worker("apply", channel[Len(channel)], "Pending")
    /\ channel' = SubSeq(channel, 1, Len(channel) - 1)
    /\ UNCHANGED <<cacheState, flags, receiver_dropped, acks, next_id, pc, local,
                   pool, freq, now>>
    /\ ret' = NoReturn

\* receiver.recv(): blocks on an empty channel
WorkerRecv ==
    /\ worker.pc = "recv"
    /\ channel # <<>>
    /\ worker' = Worker("apply", Head(channel), "Pending")
    /\ channel' = Tail(channel)
    /\ UNCHANGED <<cacheState, flags, receiver_dropped, acks, next_id, pc, local,
                   pool, freq, now>>
    /\ ret' = NoReturn

\* a worker that finishes the pair without resolving its acknowledgement
WorkerForgetsDone(status) ==
    /\ acks' = acks
    /\ worker' = Worker("recv", worker.pair, status)
    /\ UNCHANGED <<channel, receiver_dropped>>

\* pair.acknowledgement.done(status), then the keep_running check: on false the
\* receiver is dropped (with the pairs still queued) and the thread ends
WorkerDone(status) ==
    /\ acks' = [acks EXCEPT ![worker.pair.ack] = status]
    /\ IF keep_running
       THEN /\ worker' = Worker("recv", worker.pair, status)
            /\ UNCHANGED <<channel, receiver_dropped>>
       ELSE /\ worker' = Worker("exited", worker.pair, status)
            /\ channel' = <<>>
            /\ receiver_dropped' = TRUE

\* an accepted put that never reaches the store
PutLeavesStore(st, command) == st

\* store.put / store.put_with_ttl of an accepted command
PutIntoStore(st, command) ==
    IF command.type = "Put"
    THEN StorePut(st, command.key, command.value, command.id)
    ELSE StorePutWithTtl(st, command.key, command.value, command.id, Unwrap(command.ttl))

\* a put that reaches the store whatever the admission policy answered
PutStoresAlways(status) == TRUE

\* if let CommandStatus::Accepted = status: the put reaches store and ticker
PutStores(status) == status = "Accepted"

\* CommandExecutor::put and CommandExecutor::put_with_ttl
WorkerPut ==
    /\ worker.pc = "apply"
    /\ worker.pair.command.type \in {"Put", "PutWithTTL"}
    /\ UNCHANGED <<flags, next_id, pc, local, pool, freq, now>>
    /\ ret' = NoReturn
    /\ LET command == worker.pair.command IN
       \E outcome \in MaybeAdd(freq, key_weights, weight_used, command) :
        /\ key_weights' = outcome.kw
        /\ weight_used' = outcome.wu
        /\ IF PutStores(outcome.status)
           THEN /\ store' = PutIntoStore(StoreDeleteKeys(store, outcome.evicted), command)
                /\ soft_deleted' = (soft_deleted \ outcome.evicted) \ {command.key}
                /\ ttl' = IF command.type = "Put" THEN ttl
                          ELSE TtlPut(ttl, command.id, now + Unwrap(command.ttl))
                /\ keys_rejected' = keys_rejected
           ELSE /\ store' = StoreDeleteKeys(store, outcome.evicted)
                /\ soft_deleted' = soft_deleted \ outcome.evicted
                /\ ttl' = ttl
                /\ keys_rejected' = keys_rejected + 1
        /\ WorkerDone(outcome.status)

\* a delete that reports Accepted whatever the store returned
DeleteAlwaysAccepted(may_be_key_id_expiry) == "Accepted"

\* the status CommandExecutor::delete returns
DeleteStatus(may_be_key_id_expiry) ==
    IF may_be_key_id_expiry # None THEN "Accepted" ELSE "Rejected"

\* a delete that leaves the ticker alone
DeleteKeepsTicker(t, key_id, expiry) == t

\* if let Some(expiry) = key_id_expiry.1 { ttl_ticker.delete(&key_id, &expiry) }
DeleteFromTicker(t, key_id, expiry) ==
    IF expiry # None THEN TtlDelete(t, key_id, Unwrap(expiry)) ELSE t

\* CommandExecutor::delete
WorkerDelete ==
    /\ worker.pc = "apply"
    /\ worker.pair.command.type = "Delete"
    /\ UNCHANGED <<keys_rejected, flags, next_id, pc, local, pool, freq, now>>
    /\ ret' = NoReturn
    /\ LET key == worker.pair.command.key
           may_be_key_id_expiry == StoreDeleteResult(store, key)
       IN  IF may_be_key_id_expiry # None
           THEN LET key_id == Unwrap(may_be_key_id_expiry)[1]
                    expiry == Unwrap(may_be_key_id_expiry)[2]
                IN  /\ store' = StoreDelete(store, key)
                    /\ soft_deleted' = soft_deleted \ {key}
                    /\ key_weights' = PolicyDeleteKw(key_weights, key_id)
                    /\ weight_used' = PolicyDeleteWu(key_weights, weight_used, key_id)
                    /\ ttl' = DeleteFromTicker(ttl, key_id, expiry)
                    /\ WorkerDone(DeleteStatus(may_be_key_id_expiry))
           ELSE /\ UNCHANGED <<store, soft_deleted, key_weights, weight_used, ttl>>
                /\ WorkerDone(DeleteStatus(may_be_key_id_expiry))

\* CommandExecutor::update_ttl
WorkerUpdateTtl ==
    /\ worker.pc = "apply"
    /\ worker.pair.command.type = "UpdateTTL"
    /\ UNCHANGED <<soft_deleted, key_weights, weight_used, keys_rejected, flags,
                   next_id, pc, local, pool, freq, now>>
    /\ ret' = NoReturn
    /\ LET key == worker.pair.command.key
           new_expiry == now + Unwrap(worker.pair.command.ttl)
       IN  IF store[key] # None
           THEN LET key_id == Unwrap(store[key]).key_id
                    existing_expiry == Unwrap(store[key]).expire_after
                IN  /\ store' = [store EXCEPT ![key] =
                            Some([Unwrap(store[key]) EXCEPT !.expire_after = Some(new_expiry)])]
                    /\ ttl' = IF existing_expiry = None
                              THEN TtlPut(ttl, key_id, new_expiry)
                              ELSE TtlUpdate(ttl, key_id, Unwrap(existing_expiry), new_expiry)
                    /\ WorkerDone("Accepted")
           ELSE /\ UNCHANGED <<store, ttl>>
                /\ WorkerDone("Rejected")

\* the UpdateWeight command: a call into the admission policy
WorkerUpdateWeight ==
    /\ worker.pc = "apply"
    /\ worker.pair.command.type = "UpdateWeight"
    /\ UNCHANGED <<store, soft_deleted, keys_rejected, ttl, flags, next_id, pc,
                   local, pool, freq, now>>
    /\ ret' = NoReturn
    /\ key_weights' = PolicyUpdateKw(key_weights, worker.pair.command.id,
                                     worker.pair.command.weight)
    /\ weight_used' = PolicyUpdateWu(key_weights, weight_used, worker.pair.command.id,
                                     worker.pair.command.weight)
    /\ WorkerDone("Accepted")

(***************************************************************************)
(* TTL ticker scan, and the injected clock.                                *)
(***************************************************************************)
\* an evict hook that leaves the store alone
EvictHookSkipsStore(kw, key_id) == {}

\* cache_weight_evict_hook: the keys store_evict_hook deletes from the store
EvictHookDeletes(kw, key_id) == PolicyDeleteHooked(kw, key_id)

\* one due mapping is drained and handed to the evict hook of CacheD::ttl_ticker:
\* admission_policy.delete_with_hook(key_id, |key| store.delete(&key))
TtlEvict ==
    /\ ttl_running
    /\ \E mapping \in ttl :
        /\ HasPassed(mapping[2])
        /\ ttl' = ttl \ {mapping}
        /\ key_weights' = PolicyDeleteKw(key_weights, mapping[1])
        /\ weight_used' = PolicyDeleteWu(key_weights, weight_used, mapping[1])
        /\ store' = StoreDeleteKeys(store, EvictHookDeletes(key_weights, mapping[1]))
        /\ soft_deleted' = soft_deleted \ EvictHookDeletes(key_weights, mapping[1])
    /\ UNCHANGED <<keys_rejected, flags, channel, receiver_dropped, acks, worker,
                   next_id, pc, local, pool, freq, now>>
    /\ ret' = NoReturn

ClockAdvance ==
    /\ now < MaxClock
    /\ now' = now + 1
    /\ UNCHANGED <<cacheState, flags, channel, receiver_dropped, acks, worker,
                   next_id, pc, local, pool, freq>>
    /\ ret' = NoReturn

(***************************************************************************)
(* The specification.                                                      *)
(***************************************************************************)
Next ==
    \/ \E c \in Callers : Put(c)
    \/ \E c \in Callers, op \in PutOps \ {"put"} : PutVariant(c, op)
    \/ \E c \in Callers : PutSend(c)
    \/ \E c \in Callers : Delete(c)
    \/ \E c \in Callers : DeleteSend(c)
    \/ Get
    \/ GetRef
    \/ \E c \in Callers : Upsert(c)
    \/ \E c \in Callers : UpsertUpdate(c)
    \/ \E c \in Callers : UpsertFinish(c)
    \/ \E c \in Callers : SendUpdateTTL(c)
    \/ \E c \in Callers : Shutdown(c)
    \/ \E c \in Callers : ShutdownClearStore(c)
    \/ \E c \in Callers : ShutdownClearPolicy(c)
    \/ \E c \in Callers : ShutdownClearTtl(c)
    \/ WorkerRecv
    \/ WorkerPut
    \/ WorkerDelete
    \/ WorkerUpdateTtl
    \/ WorkerUpdateWeight
    \/ TtlEvict
    \/ ClockAdvance

Spec == Init /\ [][Next]_vars

(***************************************************************************)
(* Vocabulary of the properties.                                           *)
(***************************************************************************)
ShutdownPcs == {"shutdown_clear_store", "shutdown_clear_policy", "shutdown_clear_ttl"}

\* the shutdown() call that won the compare-exchange has returned
ShutdownReturned ==
    is_shutting_down /\ \A c \in Callers : pc[c] \notin ShutdownPcs

\* no call is under way and every acknowledgement handed out has completed
AcknowledgementsCompleted ==
    /\ \A c \in Callers : pc[c] = "idle"
    /\ \A i \in 1..Len(acks) : acks[i] # "Pending"

\* the worker is between two commands (the TTL scan is one atomic step)
BetweenOperations == worker.pc # "apply"

\* the step completes a command of one of the types, for key
Completes(types, key) ==
    /\ worker.pc = "apply"
    /\ worker.pair.command.type \in types
    /\ worker.pair.command.key = key
    /\ worker'.pc # "apply"

\* the latest command the worker completed is of one of the types
Completed(types) ==
    /\ worker.pc # "apply"
    /\ worker.pair.command.type \in types

\* a command of the type for the key is queued, or received and not yet applied
Pending(type, key) ==
    \/ \E j \in 1..Len(channel) :
        channel[j].command.type = type /\ channel[j].command.key = key
    \/ /\ worker.pc = "apply"
       /\ worker.pair.command.type = type
       /\ worker.pair.command.key = key

\* the step enqueues a command of the type for the key
Enqueues(type, key) ==
    /\ Len(channel') = Len(channel) + 1
    /\ channel'[Len(channel')].command.type = type
    /\ channel'[Len(channel')].command.key = key

\* the key_ids of the values in the store
StoredKeyIds == {Unwrap(store[k]).key_id : k \in {x \in Keys : store[x] # None}}

MutatorOps == PutOps \cup {"delete", "upsert"}

(***************************************************************************)
(* C1..C10.                                                                *)
(***************************************************************************)
\* C1: once every acknowledgement of a sequence of put / delete / upsert calls
\* has completed, total_weight_used() is at most total_cache_weight.
C1_WeightBound ==
    AcknowledgementsCompleted => total_weight_used <= TotalCacheWeight

C3_StoreKeysInTable ==
    BetweenOperations =>
        \A k \in Keys : store[k] # None =>
            /\ Contains(key_weights, Unwrap(store[k]).key_id)
            /\ key_weights[Unwrap(store[k]).key_id].key = k

\* C4: between operations of a cache that is not shutting down, the table holds
\* at most one entry per key, and every entry's key_id is that of a stored value.
C4_OneEntryPerKey ==
    (BetweenOperations /\ ~is_shutting_down) =>
        /\ \A k \in Keys :
            Cardinality({id \in DOMAIN key_weights : key_weights[id].key = k}) <= 1
        /\ DOMAIN key_weights \subseteq StoredKeyIds

\* C5: a Store entry with an expire_after, once the operation that set it has
\* completed, has its <<key_id, expire_after>> mapping in the TTL Ticker.
C5_ExpiryInTicker ==
    \A k \in Keys :
        (/\ store[k] # None
         /\ BetweenOperations
         /\ \A c \in Callers : pc[c] = "upsert_updated" => local[c].key # k)
        => \A e \in Unwrap(store[k]).expire_after :
               <<Unwrap(store[k]).key_id, e>> \in ttl

\* C6: when the worker completes Delete(k) for a key in the Store, the status
\* is Accepted, get(k) is None, the key_id is out of the Key-Weight Table and
\* the entry's <<key_id, expiry>> mapping is out of the TTL Ticker.
C6_DeleteOfResident ==
    [][\A k \in Keys :
        (Completes({"Delete"}, k) /\ store[k] # None) =>
            /\ worker'.status = "Accepted"
            /\ acks'[worker.pair.ack] = "Accepted"
            /\ get(k)' = None
            /\ ~Contains(key_weights', Unwrap(store[k]).key_id)
            /\ \A e \in Unwrap(store[k]).expire_after :
                   <<Unwrap(store[k]).key_id, e>> \notin ttl']_vars

\* the Delete of the only resident key has completed as Accepted: store,
\* table and ticker are empty
C6_Witness ==
    /\ Completed({"Delete"})
    /\ worker.status = "Accepted"
    /\ acks = <<"Accepted">>
    /\ ~is_shutting_down
    /\ get(worker.pair.command.key) = None
    /\ store[worker.pair.command.key] = None
    /\ key_weights = <<>>
    /\ ttl = {}
    /\ now = 0
    /\ keys_rejected = 0

\* C7: when the worker completes Delete(k) for a key that is not in the Store,
\* the status is Rejected and Store, Key-Weight Table, weight_used and TTL
\* Ticker are unchanged.
C7_DeleteOfAbsent ==
    [][\A k \in Keys :
        (Completes({"Delete"}, k) /\ store[k] = None) =>
            /\ worker'.status = "Rejected"
            /\ acks'[worker.pair.ack] = "Rejected"
            /\ UNCHANGED <<store, key_weights, weight_used, ttl>>]_vars

\* a Delete of an absent key has completed as Rejected beside a resident key
C7_Witness ==
    /\ Completed({"Delete"})
    /\ worker.status = "Rejected"
    /\ \E k \in Keys : store[k] # None

C9_AfterShutdownReturned ==
    [][ShutdownReturned =>
        /\ \A c \in Callers : pc[c] = "idle" => pc'[c] \notin MutatorPcs
        /\ (pc' = pc /\ ret'.op \in MutatorOps) =>
               (ret'.res = "Err" /\ channel' = channel /\ acks' = acks)
        /\ \A k \in Keys :
               /\ get(k) = None
               /\ get_ref(k) = None
               /\ map_get(k) = None
               /\ map_get_ref(k) = None
               /\ MultiGetIteratorNext(<<k>>) = None
        /\ multi_get(Keys) = <<>>]_vars

\* C10: after shutdown() has returned, the Store, the Key-Weight Table and the
\* TTL Ticker are empty and total_weight_used() is 0 in every later state.
C10_ClearedAfterShutdown ==
    ShutdownReturned =>
        /\ \A k \in Keys : store[k] = None
        /\ key_weights = <<>>
        /\ ttl = {}
        /\ total_weight_used = 0

(***************************************************************************)
(* C11..C20.                                                               *)
(***************************************************************************)
\* the step is a shutdown() call that lost the compare-exchange
ShutdownLoses == ret'.op = "shutdown" /\ pc' = pc

\* the step is the compare-exchange of the shutdown() call that wins it
ShutdownWins == ~is_shutting_down /\ is_shutting_down'

\* C11: shutdown() is idempotent.  One call wins the compare-exchange (the flag
\* never falls back), stops the executor and clears Store, Admission Policy and
\* TTL Ticker; a call that loses changes nothing; once a shutdown() has
\* returned, is_shutting_down is true and a put called from then on returns Err.
C11_ShutdownIdempotent ==
    [][/\ is_shutting_down => is_shutting_down'
       /\ Cardinality({c \in Callers : pc'[c] \in ShutdownPcs}) <= 1
       /\ ShutdownWins => (~keep_running' /\ ~ttl_running')
       /\ \A c \in Callers :
            /\ (pc[c] = "shutdown_clear_store" /\ pc'[c] # pc[c])
                   => \A k \in Keys : store'[k] = None
            /\ (pc[c] = "shutdown_clear_policy" /\ pc'[c] # pc[c])
                   => (key_weights' = <<>> /\ weight_used' = 0)
            /\ (pc[c] = "shutdown_clear_ttl" /\ pc'[c] # pc[c]) => ttl' = {}
       /\ ShutdownLoses =>
            UNCHANGED <<cacheState, flags, channel, receiver_dropped, acks, worker,
                        next_id, pool, freq>>
       /\ ret'.op = "shutdown" => is_shutting_down'
       /\ (ShutdownReturned /\ pc' = pc /\ ret'.op = "put") => ret'.res = "Err"]_vars

\* the worker thread of spin() keeps running while it has something to do: a
\* pair to receive, or a received command to apply and acknowledge
FairSpec ==
    /\ Spec
    /\ WF_vars(WorkerRecv)
    /\ WF_vars(WorkerPut)
    /\ WF_vars(WorkerDelete)
    /\ WF_vars(WorkerUpdateTtl)
    /\ WF_vars(WorkerUpdateWeight)

\* acknowledgement i belongs to a Put or PutWithTTL pair that is in the channel
PutQueued(i) ==
    \E j \in 1..Len(channel) :
        /\ channel[j].ack = i
        /\ channel[j].command.type \in {"Put", "PutWithTTL"}

\* acknowledgement i has its final status
AckFinal(i) == Len(acks) >= i /\ acks[i] \in {"Accepted", "Rejected", "Shutdown"}

\* C12: the acknowledgement of every put that returned Ok (its pair went into
\* the channel) eventually completes with Accepted, Rejected or Shutdown, also
\* when shutdown() runs while the pair is still queued.
C12_PutAcksComplete ==
    \A i \in 1..MaxCmds : PutQueued(i) ~> AckFinal(i)

\* the step is the worker finishing the pair it received
FinishesPair == worker.pc = "apply" /\ worker'.pc # "apply"

\* the effect of the received command, as far as its status tells, is in place
EffectInPlace(command, status) ==
    IF command.type \in {"Put", "PutWithTTL"} /\ status = "Accepted"
    THEN /\ store[command.key] # None
         /\ Unwrap(store[command.key]).key_id = command.id
         /\ Unwrap(store[command.key]).value = command.value
         /\ Contains(key_weights, command.id)
         /\ command.type = "PutWithTTL" =>
                \E e \in Unwrap(store[command.key]).expire_after :
                    <<command.id, e>> \in ttl
    ELSE IF command.type \in {"Put", "PutWithTTL"}
    THEN ~Contains(key_weights, command.id)
    ELSE IF command.type = "Delete"
    THEN store[command.key] = None
    ELSE IF command.type = "UpdateTTL" /\ status = "Accepted"
    THEN /\ store[command.key] # None
         /\ \E e \in Unwrap(store[command.key]).expire_after :
                <<Unwrap(store[command.key]).key_id, e>> \in ttl
    ELSE TRUE

\* C13: an acknowledgement is resolved at most once, and once per pair the
\* worker receives: a final status never changes, a status changes only in the
\* step in which the worker finishes the pair carrying that acknowledgement,
\* that step makes it final, and it does so with the command's effect on
\* Admission Policy, Store and TTL Ticker in place.
C13_ResolvedOnce ==
    [][/\ \A i \in 1..Len(acks) :
            /\ acks[i] # "Pending" => acks'[i] = acks[i]
            /\ acks'[i] # acks[i] => (FinishesPair /\ worker.pair.ack = i)
       /\ worker.pc = "apply" => acks[worker.pair.ack] = "Pending"
       /\ FinishesPair =>
            /\ acks'[worker.pair.ack] \in {"Accepted", "Rejected"}
            /\ acks'[worker.pair.ack] = worker'.status
            /\ ~is_shutting_down => EffectInPlace(worker.pair.command, worker.status)']_vars

\* the worker has finished an accepted PutWithTTL after another command: both
\* acknowledgements are final and the second command's effect is in place
C13_Witness ==
    /\ Completed({"PutWithTTL"})
    /\ worker.pair.ack = 2
    /\ acks = <<"Rejected", "Accepted">>
    /\ ~is_shutting_down
    /\ EffectInPlace(worker.pair.command, worker.status)

\* the step is the worker receiving a pair
ReceivesPair == worker.pc = "recv" /\ worker'.pc = "apply"

\* C14: the worker applies the commands in the order of their enqueueing (the
\* acknowledgements are numbered in that order): it receives the oldest queued
\* pair, later than every pair it received before, and only once every earlier
\* acknowledgement is final; and when put(k, v2) completes as Accepted on top of
\* an earlier put of k that has been applied, get(k) returns v2.
C14_FifoOrder ==
    [][/\ \A j \in 1..Len(channel) :
            /\ channel[j].ack > worker.pair.ack
            /\ \A i \in 1..(j - 1) : channel[i].ack < channel[j].ack
       /\ ReceivesPair =>
            /\ worker'.pair = Head(channel)
            /\ worker'.pair.ack > worker.pair.ack
            /\ \A i \in 1..(worker'.pair.ack - 1) : acks[i] # "Pending"
       /\ \A k \in Keys :
            (/\ Completes({"Put"}, k)
             /\ worker'.status = "Accepted"
             /\ ~is_shutting_down'
             /\ store[k] # None
             /\ Unwrap(store[k]).key_id < worker.pair.command.id)
            => /\ get(k)' = Some(worker.pair.command.value)
               /\ Unwrap(store'[k]).key_id = worker.pair.command.id]_vars

\* put(k, v1) and put(k, v2) were enqueued in this order, both are Accepted,
\* and get(k) is v2
C14_Witness ==
    /\ Completed({"Put"})
    /\ worker.pair.ack = 2
    /\ worker.pair.command.id = 2
    /\ worker.pair.command.value = "v2"
    /\ acks = <<"Accepted", "Accepted">>
    /\ Contains(key_weights, 1)
    /\ key_weights[1].key = worker.pair.command.key
    /\ ~is_shutting_down
    /\ get(worker.pair.command.key) = Some("v2")

\* C15: when the worker completes a Put or PutWithTTL whose weight is greater
\* than total_cache_weight, the status is Rejected, a rejection is recorded,
\* and Store, Key-Weight Table, weight_used and TTL Ticker are unchanged.
C15_OverweightRejected ==
    [][\A k \in Keys :
        (/\ Completes({"Put", "PutWithTTL"}, k)
         /\ worker.pair.command.weight > TotalCacheWeight)
        => /\ worker'.status = "Rejected"
           /\ acks'[worker.pair.ack] = "Rejected"
           /\ keys_rejected' = keys_rejected + 1
           /\ ~Contains(key_weights', worker.pair.command.id)
           /\ UNCHANGED <<store, key_weights, weight_used, ttl>>]_vars

\* a PutWithTTL heavier than the cache was rejected beside a resident key
C15_Witness ==
    /\ Completed({"PutWithTTL"})
    /\ worker.pair.command.weight > TotalCacheWeight
    /\ worker.status = "Rejected"
    /\ acks = <<"Accepted", "Rejected">>
    /\ weight_used > 0
    /\ \E k \in Keys : store[k] # None

\* the received Put or PutWithTTL is a new candidate that the cache could hold
\* but that does not fit in the free weight
DoesNotFit(command) ==
    /\ command.weight <= TotalCacheWeight
    /\ ~Contains(key_weights, command.id)
    /\ command.weight > TotalCacheWeight - weight_used
    /\ DOMAIN key_weights # {}

\* the estimate of the lowest-frequency member of the sample of all residents
LowestSampledEstimate ==
    Estimate(freq, KeyHash(key_weights[
        MinFrequencyKey(freq, key_weights, DOMAIN key_weights)].key))

LowestSampled == MinFrequencyKey(freq, key_weights, DOMAIN key_weights)

C17_TtlScanEvicts ==
    [][TtlEvict =>
        \A m \in ttl \ ttl' :
            /\ HasPassed(m[2])
            /\ ~Contains(key_weights', m[1])
            /\ weight_used' = weight_used -
                   (IF Contains(key_weights, m[1]) THEN key_weights[m[1]].weight ELSE 0)
            /\ \A k \in Keys :
                   (store[k] # None /\ Unwrap(store[k]).key_id = m[1])
                       => (store'[k] = None /\ get(k)' = None)]_vars

\* no command was sent: every resident key was put with a TTL, the clock has
\* passed the expire_after, and the scan has taken the entries out of ticker,
\* table and store
C17_Witness ==
    /\ acks = <<>>
    /\ \A c \in Callers : pc[c] = "idle"
    /\ ~is_shutting_down
    /\ HasPassed(1)
    /\ ttl = {}
    /\ ~Contains(key_weights, 1)
    /\ total_weight_used = 0
    /\ \A k \in Keys : store[k] = None /\ get(k) = None

\* C18: a read never returns an expired value.  A stored value with an
\* expire_after is alive exactly while the clock has not passed it, one without
\* is always alive, and get / get_ref return None for an entry that is not
\* alive, whether or not the TTL scan has removed it.
C18_NoExpiredRead ==
    \A k \in Keys : \A stored_value \in store[k] :
        /\ \A e \in stored_value.expire_after :
               /\ IsAlive(stored_value) <=> ~HasPassed(e)
               /\ HasPassed(e) => (get(k) = None /\ get_ref(k) = None)
        /\ stored_value.expire_after = None => IsAlive(stored_value)
        /\ (get(k) # None \/ get_ref(k) # None) =>
               \A e \in stored_value.expire_after : ~HasPassed(e)

\* an expired entry that the scan has not yet removed, unmarked, in a running
\* cache: the reads miss
C18_Witness ==
    \E k \in Keys :
        /\ store[k] # None
        /\ k \notin soft_deleted
        /\ ~is_shutting_down
        /\ \E e \in Unwrap(store[k]).expire_after :
               /\ HasPassed(e)
               /\ <<Unwrap(store[k]).key_id, e>> \in ttl
        /\ get(k) = None
        /\ get_ref(k) = None

\* the key_ids of the Put and PutWithTTL commands in the channel or with the worker
CommandKeyIds ==
    {channel[j].command.id :
        j \in {i \in 1..Len(channel) : channel[i].command.type \in {"Put", "PutWithTTL"}}}
    \cup (IF worker.pair.command.type \in {"Put", "PutWithTTL"}
          THEN {worker.pair.command.id} ELSE {})

\* C19: key_ids are unique and strictly increasing.  Every KeyDescription that
\* is built (the step enqueues a Put or PutWithTTL) carries a key_id greater
\* than every key_id handed out before, the generator never goes back, no two
\* queued puts and no two stored values share a key_id, and every key_id in
\* the Store or the Key-Weight Table is one that was handed out.
C19_KeyIdsIncrease ==
    [][/\ next_id' >= next_id
       /\ (\E k \in Keys : Enqueues("Put", k) \/ Enqueues("PutWithTTL", k)) =>
            LET key_id == channel'[Len(channel')].command.id IN
            /\ key_id = next_id
            /\ next_id' > key_id
            /\ \A id \in CommandKeyIds \cup StoredKeyIds \cup DOMAIN key_weights :
                   id < key_id
       /\ \A i, j \in 1..Len(channel) :
            (/\ i # j
             /\ channel[i].command.type \in {"Put", "PutWithTTL"}
             /\ channel[j].command.type \in {"Put", "PutWithTTL"})
            => channel[i].command.id # channel[j].command.id
       /\ \A k1, k2 \in Keys :
            (k1 # k2 /\ store[k1] # None /\ store[k2] # None)
            => Unwrap(store[k1]).key_id # Unwrap(store[k2]).key_id
       /\ \A id \in CommandKeyIds \cup StoredKeyIds \cup DOMAIN key_weights :
            id < next_id]_vars

\* two puts from two callers were given key_ids 1 and 2 and both are resident
C19_Witness ==
    /\ next_id = 3
    /\ DOMAIN key_weights = {1, 2}
    /\ StoredKeyIds = {1, 2}
    /\ acks = <<"Accepted", "Accepted">>
    /\ ~is_shutting_down

\* the step is a put variant returning res to its caller
PutReturns(res) == ret'.op \in PutOps /\ ret'.res = res

\* C20: a put variant on a running cache whose weight is not strictly positive
\* panics before anything is sent.  No Put or PutWithTTL of a weight <= 0 is
\* ever enqueued; a put variant that panics enqueues nothing, consumes no
\* key_id and leaves Store, Key-Weight Table and TTL Ticker unchanged; and a
\* put variant ends in no other way than Ok with its command enqueued, the
\* panic, or the Err of a cache that is shutting down.
C20_InvalidWeightPanics ==
    [][/\ (\E k \in Keys : Enqueues("Put", k) \/ Enqueues("PutWithTTL", k)) =>
            channel'[Len(channel')].command.weight > 0
       /\ PutReturns("Panic") =>
            UNCHANGED <<channel, acks, next_id, store, soft_deleted, key_weights,
                        weight_used, ttl>>
       /\ PutReturns("Ok") =>
            /\ \E k \in Keys : Enqueues("Put", k) \/ Enqueues("PutWithTTL", k)
            /\ next_id' > next_id
       /\ PutReturns("Err") => is_shutting_down
       /\ ret'.op \in PutOps => ret'.res \in {"Ok", "Panic", "Err"}]_vars

\* a put variant past its shutdown check has just panicked on its weight, on
\* a running cache that holds a key
C20_Witness ==
    /\ ret.op \in PutOps \ {"put"}
    /\ ret.res = "Panic"
    /\ ~is_shutting_down
    /\ acks = <<>>
    /\ next_id = Cardinality(Keys) + 1
    /\ channel = <<>>
    /\ \E k \in Keys : get(k) # None

(***************************************************************************)
(* C21..C30.                                                               *)
(***************************************************************************)
\* the step is an upsert returning res on the path of a key absent from the Store
UpsertPutReturns(res) ==
    /\ ret'.op = "upsert"
    /\ ret'.res = res
    /\ \E c \in Callers : pc[c] = "upsert_checked" /\ pc'[c] = "idle"

\* the step enqueues a Put or a PutWithTTL
EnqueuesPut == \E k \in Keys : Enqueues("Put", k) \/ Enqueues("PutWithTTL", k)

\* C21: upsert on a key absent from the Store with no value in the request
\* panics and enqueues nothing, leaving Store, Key-Weight Table and TTL Ticker
\* unchanged; the upsert of an absent key returns Ok only with a Put or
\* PutWithTTL enqueued that carries a value, and no put without a value is ever
\* enqueued.
C21_UpsertWithoutValuePanics ==
    [][/\ UpsertPutReturns("PanicValueMissing") =>
            UNCHANGED <<channel, acks, next_id, store, soft_deleted, key_weights,
                        weight_used, ttl>>
       /\ UpsertPutReturns("Ok") =>
            /\ EnqueuesPut
            /\ store[channel'[Len(channel')].command.key] = None
       /\ EnqueuesPut => channel'[Len(channel')].command.value \in Values
       /\ \A c \in Callers :
            (pc[c] = "upsert_checked" /\ pc'[c] = "idle") =>
                ret'.res \in {"Ok", "Err", "Panic", "PanicValueMissing"}]_vars

\* an upsert without a value has just panicked on an absent key beside a
\* resident one, on a running cache
C21_Witness ==
    /\ ret.op = "upsert"
    /\ ret.res = "PanicValueMissing"
    /\ ~is_shutting_down
    /\ acks = <<>>
    /\ channel = <<>>
    /\ next_id = Cardinality(Keys) + 1
    /\ Cardinality({k \in Keys : store[k] # None}) = 1

\* the command the step appended to the channel
Enqueued == channel'[Len(channel')].command

\* C22: an upsert with a value on a key absent from the Store acts as a put:
\* when it returns Ok it has enqueued PutWithTTL if the request has a
\* time_to_live and Put otherwise, for the request's key and value, with the
\* request's weight if it has one and the calculated weight otherwise; and
\* when such a command completes Accepted the key holds the value under the
\* command's key_id, weight_of(key_id) is the command's weight and
\* expire_after is now + time_to_live for PutWithTTL, absent for Put.
C22_UpsertOfAbsentKeyPuts ==
    [][/\ UpsertPutReturns("Ok") =>
            /\ store[ret'.request.key] = None
            /\ ret'.request.value # None
            /\ Len(channel') = Len(channel) + 1
            /\ Enqueued.type = (IF ret'.request.time_to_live # None
                                THEN "PutWithTTL" ELSE "Put")
            /\ Enqueued.key = ret'.request.key
            /\ Enqueued.value = Unwrap(ret'.request.value)
            /\ ret'.request.weight # None =>
                    Enqueued.weight = Unwrap(ret'.request.weight)
            /\ Enqueued.weight > 0
            /\ Enqueued.ttl = ret'.request.time_to_live
       /\ \A k \in Keys :
            (Completes({"Put", "PutWithTTL"}, k) /\ worker'.status = "Accepted") =>
                LET command == worker.pair.command IN
                /\ store'[k] = Some([value |-> command.value, key_id |-> command.id,
                                     expire_after |->
                                        IF command.type = "PutWithTTL"
                                        THEN Some(now + Unwrap(command.ttl)) ELSE None])
                /\ WeightOf(key_weights', command.id) = Some(command.weight)]_vars

\* an upsert without a weight and with a time_to_live has just returned Ok on
\* a running cache that holds the other key
C22_Witness ==
    /\ ret.op = "upsert"
    /\ ret.res = "Ok"
    /\ ret.request.weight = None
    /\ ret.request.time_to_live # None
    /\ ~is_shutting_down
    /\ acks = <<"Pending">>
    /\ \E k \in Keys : get(k) # None
    /\ Len(channel) = 1
    /\ channel[1].command.type = "PutWithTTL"
    /\ channel[1].command.weight = 2
    /\ store[channel[1].command.key] = None

(***************************************************************************)
(* The upsert transitions of a resident key (spec.md scenario 5): both     *)
(* keys were put without a TTL and their acknowledgements awaited; a       *)
(* client then sends upserts that carry neither value nor weight, awaiting *)
(* each acknowledgement before the next call, while the clock and the TTL  *)
(* ticker run.                                                             *)
(***************************************************************************)
\* the key_id and the weight each key was put with
PutKeyId(key) == IF key = "topic" THEN 1 ELSE 2
PutWeight(key) == IF key = "topic" THEN 1 ELSE 2

UpsertInit ==
    /\ is_shutting_down = FALSE
    /\ keep_running = TRUE
    /\ store = [k \in Keys |-> Some(NeverExpiring("v1", PutKeyId(k)))]
    /\ soft_deleted = {}
    /\ key_weights = [id \in {PutKeyId(k) : k \in Keys} |->
                        [key |-> CHOOSE k \in Keys : PutKeyId(k) = id,
                         weight |-> PutWeight(CHOOSE k \in Keys : PutKeyId(k) = id)]]
    /\ weight_used = SumOver([k \in Keys |-> PutWeight(k)], Keys)
    /\ keys_rejected = 0
    /\ ttl = {}
    /\ ttl_running = TRUE
    /\ channel = <<>>
    /\ receiver_dropped = FALSE
    /\ acks = <<>>
    /\ worker = Worker("recv", NoPair, "-")
    /\ next_id = Cardinality(Keys) + 1
    /\ pc = [c \in Callers |-> "idle"]
    /\ local = [c \in Callers |-> NoLocal]
    /\ ret = NoReturn
    /\ pool = <<>>
    /\ freq = [h \in Hashes |-> NoFrequency]
    /\ now = 0

\* the request of the step carries neither value nor weight
TtlOnlyRequest == ret.request.value = None /\ ret.request.weight = None

UpsertNext ==
    \/ \E c \in Callers : AcknowledgementsCompleted /\ Upsert(c)
    \/ \E c \in Callers : UpsertUpdate(c) /\ TtlOnlyRequest'
    \/ \E c \in Callers : UpsertFinish(c)
    \/ WorkerRecv
    \/ WorkerUpdateWeight
    \/ TtlEvict
    \/ ClockAdvance

UpsertSpec == UpsertInit /\ [][UpsertNext]_vars

\* the entry the key was put with is still resident
PutEntryResident(key) ==
    store[key] # None /\ Unwrap(store[key]).key_id = PutKeyId(key)

\* the step is store.update of a resident key
UpdatesInPlace(c) == pc[c] = "upsert_checked" /\ pc'[c] = "upsert_updated"

\* C23: for a key put without a TTL, upsert(k, ttl) with no value and no
\* weight leaves the value, sets expire_after to now + ttl, registers the
\* key_id in the TTL Ticker and, once acknowledged, has raised
\* weight_of(key_id) by exactly the ticker-entry size; a following
\* upsert(k, remove_ttl) clears expire_after, removes the ticker's mapping
\* and, once acknowledged, has restored the weight.
C23_TtlUpsertRoundTrip ==
    [][/\ \A c \in Callers :
            UpdatesInPlace(c) =>
                LET k == ret'.request.key IN
                /\ Unwrap(store'[k]).value = Unwrap(store[k]).value
                /\ Unwrap(store'[k]).key_id = Unwrap(store[k]).key_id
                /\ ret'.request.time_to_live # None =>
                        Unwrap(store'[k]).expire_after =
                            Some(now + Unwrap(ret'.request.time_to_live))
                /\ ret'.request.remove_time_to_live =>
                        Unwrap(store'[k]).expire_after = None
       /\ \A c \in Callers :
            (pc[c] = "upsert_updated" /\ pc'[c] = "idle") =>
                (\A k \in Keys : PutEntryResident(k) =>
                    \A e \in 0..(MaxClock + 1) :
                        <<PutKeyId(k), e>> \in ttl' <=>
                            Unwrap(store[k]).expire_after = Some(e))
       /\ AcknowledgementsCompleted' =>
            \A k \in Keys : PutEntryResident(k)' =>
                /\ Unwrap(store'[k]).value = "v1"
                /\ WeightOf(key_weights', PutKeyId(k)) =
                        Some(PutWeight(k) +
                             (IF Unwrap(store'[k]).expire_after # None
                              THEN TtlTickerEntrySize ELSE 0))
                /\ \A e \in 0..(MaxClock + 1) :
                        <<PutKeyId(k), e>> \in ttl' <=>
                            Unwrap(store'[k]).expire_after = Some(e)]_vars

\* topic got a TTL by one upsert and lost it by the next, and both upserts
\* were acknowledged
C23_Witness ==
    /\ AcknowledgementsCompleted
    /\ acks = <<"Accepted", "Accepted">>
    /\ worker.pair.command.type = "UpdateWeight"
    /\ worker.pair.command.id = PutKeyId("topic")
    /\ worker.pair.command.weight = PutWeight("topic")
    /\ PutEntryResident("topic")
    /\ Unwrap(store["topic"]).expire_after = None
    /\ WeightOf(key_weights, PutKeyId("topic")) = Some(PutWeight("topic"))
    /\ ttl = {}

\* the step is the part of upsert that follows store.update of a resident key
FinishesUpsert(c) == pc[c] = "upsert_updated" /\ pc'[c] = "idle"

\* C24: upsert(k, weight = w) on a resident key sets weight_of(key_id) to w
\* for every w > 0, also beyond total_cache_weight: the explicit weight wins
\* over the calculated weight of a value in the request and over the
\* ticker-entry size of a TTL transition, an UpdateWeight(key_id, w) is sent,
\* and when it is acknowledged the table holds w for the key_id; a request
\* without a value leaves the stored value.
C24_UpsertSetsExplicitWeight ==
    [][/\ \A c \in Callers :
            UpdatesInPlace(c) =>
                LET k == ret'.request.key IN
                /\ store[k] # None
                /\ local'[c].key_id = Unwrap(store[k]).key_id
                /\ ret'.request.weight # None =>
                        local'[c].updated_weight = ret'.request.weight
                /\ ret'.request.value = None =>
                        Unwrap(store'[k]).value = Unwrap(store[k]).value
       /\ \A c \in Callers :
            (FinishesUpsert(c) /\ local[c].updated_weight # None) =>
                LET w == Unwrap(local[c].updated_weight) IN
                IF w > 0 /\ ret'.res = "Ok"
                THEN /\ Len(channel') = Len(channel) + 1
                     /\ Enqueued.type = "UpdateWeight"
                     /\ Enqueued.id = local[c].key_id
                     /\ Enqueued.weight = w
                ELSE /\ UNCHANGED <<channel, acks>>
                     /\ ret'.res = (IF w > 0 THEN "Err" ELSE "Panic")
       /\ \A k \in Keys :
            Completes({"UpdateWeight"}, k) =>
                LET command == worker.pair.command IN
                /\ worker'.status = "Accepted"
                /\ acks'[worker.pair.ack] = "Accepted"
                /\ Contains(key_weights, command.id) =>
                        WeightOf(key_weights', command.id) = Some(command.weight)
                /\ store' = store]_vars

\* store.update has just taken a request with a weight beyond
\* total_cache_weight, a value and a time_to_live for a key put without one:
\* the weight upsert goes on with is the request's
C24_Witness ==
    \E c \in Callers :
        /\ pc[c] = "upsert_updated"
        /\ ret.request.weight = Some(TotalCacheWeight + 1)
        /\ ret.request.value # None
        /\ local[c].expiry_update = "Added"
        /\ local[c].updated_weight = Some(TotalCacheWeight + 1)
        /\ acks = <<>>
        /\ Contains(key_weights, local[c].key_id)

\* C25: upsert(k, ttl = t) with no value and no weight on a resident key that
\* has a TTL replaces the expiry: the entry's expire_after becomes now + t,
\* the ticker maps the key_id to the new expiry and no longer to the old one,
\* the Key-Weight Table is unchanged, no command is sent, and the
\* acknowledgement returned is an already completed Accepted.
C25_UpsertReplacesExpiry ==
    [][/\ \A c \in Callers :
            (/\ UpdatesInPlace(c)
             /\ TtlOnlyRequest'
             /\ ret'.request.time_to_live # None
             /\ Unwrap(store[ret'.request.key]).expire_after # None) =>
                LET k == ret'.request.key IN
                /\ Unwrap(store'[k]).expire_after =
                        Some(now + Unwrap(ret'.request.time_to_live))
                /\ Unwrap(store'[k]).value = Unwrap(store[k]).value
                /\ local'[c].expiry_update = "Updated"
                /\ local'[c].updated_weight = None
                /\ local'[c].key_id = Unwrap(store[k]).key_id
                /\ local'[c].old_expiry = Unwrap(store[k]).expire_after
                /\ local'[c].new_expiry = Unwrap(store'[k]).expire_after
       /\ \A c \in Callers :
            (/\ FinishesUpsert(c)
             /\ local[c].expiry_update = "Updated"
             /\ local[c].updated_weight = None) =>
                /\ <<local[c].key_id, Unwrap(local[c].new_expiry)>> \in ttl'
                /\ local[c].old_expiry # local[c].new_expiry =>
                        <<local[c].key_id, Unwrap(local[c].old_expiry)>> \notin ttl'
                /\ \A m \in ttl' \ ttl : m = <<local[c].key_id, Unwrap(local[c].new_expiry)>>
                /\ \A m \in ttl \ ttl' : m = <<local[c].key_id, Unwrap(local[c].old_expiry)>>
                /\ UNCHANGED <<key_weights, weight_used, channel, acks, store>>
                /\ ret'.res = "OkAccepted"]_vars

\* topic was put with a TTL that expires at time 1; at time 1 an upsert with
\* only a time_to_live has replaced the entry's expiry by 2 and is about to
\* replace the ticker's mapping and to return
C25_Witness ==
    \E c \in Callers :
        /\ pc[c] = "upsert_updated"
        /\ ret.request.key = "topic"
        /\ TtlOnlyRequest
        /\ local[c].expiry_update = "Updated"
        /\ local[c].updated_weight = None
        /\ local[c].old_expiry = Some(1)
        /\ local[c].new_expiry = Some(2)
        /\ Unwrap(store["topic"]).expire_after = Some(2)
        /\ ttl = {<<local[c].key_id, 1>>}
        /\ acks = <<>>
        /\ channel = <<>>
        /\ WeightOf(key_weights, local[c].key_id) = Some(1)

(***************************************************************************)
(* The frequency pipeline (spec.md scenario 4): a cache configured with    *)
(* access_pool_size(1) and access_buffer_size(3) in which both keys were   *)
(* put and acknowledged; clients read and delete.                          *)
(***************************************************************************)
FrequencyBufferSize == 3

\* the reads of one run that find their key
MaxHits == 6

FrequencyInit == UpsertInit

\* get / get_ref of the cache with the buffer of three accesses
FrequencyGet ==
    /\ UNCHANGED <<cacheState, flags, channel, receiver_dropped, acks, worker,
                   next_id, pc, local, now>>
    /\ ret' = NoReturn
    /\ \E key \in Keys :
        IF get(key) # None
        THEN PoolAddTo(KeyHash(key), FrequencyBufferSize, MaxHits)
        ELSE UNCHANGED <<pool, freq>>

FrequencyNext ==
    \/ FrequencyGet
    \/ \E c \in Callers : Delete(c)
    \/ \E c \in Callers : DeleteSend(c)
    \/ WorkerRecv
    \/ WorkerDelete

FrequencySpec == FrequencyInit /\ [][FrequencyNext]_vars

\* how often hash occurs in a batch of accesses
RECURSIVE Occurrences(_, _)
Occurrences(batch, hash) ==
    IF batch = <<>> THEN 0
    ELSE (IF Head(batch) = hash THEN 1 ELSE 0) + Occurrences(Tail(batch), hash)

\* the step records an access of hash in the buffer, which stays short of full
Buffers(hash) ==
    /\ Len(pool) + 1 < FrequencyBufferSize
    /\ pool' = Append(pool, hash)

\* the step records an access of hash that fills the buffer, and the full
\* buffer is handed to the policy
Drains(hash) ==
    /\ Len(pool) + 1 = FrequencyBufferSize
    /\ pool' = <<>>
    /\ freq' # freq

\* C26: with one access buffer of capacity 3 the accesses are counted in
\* batches of three: an access that leaves the buffer short of full changes
\* no estimate; the access that fills it hands the buffer to the policy,
\* which raises the estimate of each hash by its occurrences in the buffer,
\* the first observation of a hash setting only its doorkeeper bit and the
\* later ones bumping its counter.  So after the reads topic, disk, topic,
\* disk of two resident keys the estimates are 2 and 1 and the last access
\* waits in the buffer.
C26_AccessesCountedPerFullBuffer ==
    [][/\ Len(pool') < FrequencyBufferSize
       /\ (pool' # pool \/ freq' # freq) =>
            \E key \in Keys :
                LET hash == KeyHash(key) IN
                /\ get(key) # None
                /\ \/ Buffers(hash) /\ freq' = freq
                   \/ /\ Drains(hash)
                      /\ \A h \in Hashes :
                            LET seen == Occurrences(Append(pool, hash), h) IN
                            /\ Estimate(freq', h) = Estimate(freq, h) + seen
                            /\ freq'[h].doorkeeper = (freq[h].doorkeeper \/ seen > 0)
                            /\ freq'[h].counter = freq[h].counter +
                                    (IF freq[h].doorkeeper \/ seen = 0
                                     THEN seen ELSE seen - 1)]_vars

\* after the reads topic, disk, topic and disk: the first three were handed
\* to the policy, the fourth waits in the buffer
C26_Witness ==
    /\ pool = <<KeyHash("disk")>>
    /\ Estimate(freq, KeyHash("topic")) = 2
    /\ Estimate(freq, KeyHash("disk")) = 1
    /\ freq[KeyHash("topic")] = [doorkeeper |-> TRUE, counter |-> 1]
    /\ freq[KeyHash("disk")] = [doorkeeper |-> TRUE, counter |-> 0]
    /\ acks = <<>>

\* the key_ids the step evicted from the Key-Weight Table
Victims == DOMAIN key_weights \ DOMAIN key_weights'

\* C27: when a put is admitted by evicting victims, every victim is gone
\* from the Key-Weight Table with its weight subtracted, from the Store and
\* from the TTL Ticker, and the new key is in the table and in the Store.
C27_VictimsRemovedEverywhere ==
    [][\A k \in Keys :
        (/\ Completes({"Put", "PutWithTTL"}, k)
         /\ worker'.status = "Accepted"
         /\ Victims # {}) =>
            LET command == worker.pair.command IN
            /\ weight_used' = weight_used + command.weight
                                - SumOver([id \in Victims |-> key_weights[id].weight], Victims)
            /\ \A id \in Victims :
                /\ id \notin StoredKeyIds'
                /\ \A mapping \in ttl' : mapping[1] # id
            /\ WeightOf(key_weights', command.id) = Some(command.weight)
            /\ store'[k] # None
            /\ Unwrap(store'[k]).key_id = command.id]_vars

\* every resident is estimated exactly as frequent as key
TiedWithResidents(key) ==
    \A id \in DOMAIN key_weights :
        Estimate(freq, KeyHash(key_weights[id].key)) = Estimate(freq, KeyHash(key))

\* C28: a tie goes to the candidate.  When the worker completes a put whose
\* candidate does not fit in the free weight and every resident is estimated
\* exactly as frequent as the candidate, the put is Accepted: the candidate
\* is in the Key-Weight Table with its weight and in the Store, the sampled
\* victim is gone from the table and its key from the Store, and weight_used
\* stays within total_cache_weight.
C28_TieAdmitsCandidate ==
    [][\A k \in Keys :
        (/\ Completes({"Put", "PutWithTTL"}, k)
         /\ DoesNotFit(worker.pair.command)
         /\ Cardinality(DOMAIN key_weights) <= SampleSize
         /\ TiedWithResidents(k)) =>
            LET command == worker.pair.command
                victim_key == key_weights[LowestSampled].key
            IN  /\ worker'.status = "Accepted"
                /\ acks'[worker.pair.ack] = "Accepted"
                /\ WeightOf(key_weights', command.id) = Some(command.weight)
                /\ store'[k] # None
                /\ Unwrap(store'[k]).key_id = command.id
                /\ ~Contains(key_weights', LowestSampled)
                /\ victim_key # k => store'[victim_key] = None
                /\ weight_used' <= TotalCacheWeight
                /\ keys_rejected' = keys_rejected]_vars

\* two puts of weight 2 on a cache of total weight 3, the keys estimated
\* alike: both were acknowledged Accepted, the second key_id alone is resident
C28_Witness ==
    /\ Completed({"Put", "PutWithTTL"})
    /\ acks = <<"Accepted", "Accepted">>
    /\ worker.pair.command.id = 2
    /\ worker.pair.command.key = "disk"
    /\ worker.pair.command.weight = 2
    /\ DOMAIN key_weights = {2}
    /\ weight_used = 2
    /\ store["topic"] = None
    /\ store["disk"] # None
    /\ Unwrap(store["disk"]).key_id = 2
    /\ Estimate(freq, KeyHash("topic")) = Estimate(freq, KeyHash("disk"))
    /\ soft_deleted = {}
    /\ ~is_shutting_down

\* the step completes a Put or PutWithTTL with status
CompletesPut(status) ==
    /\ \E k \in Keys : Completes({"Put", "PutWithTTL"}, k)
    /\ worker'.status = status

\* C29: keys_rejected counts the rejected puts.  It starts at 0; the worker
\* step that completes a Put or PutWithTTL with Rejected raises it by exactly
\* one, the one that completes it with Accepted leaves it, and no other step
\* changes it: after n rejected puts it is n.
C29_RejectedPutsCounted ==
    /\ keys_rejected = 0
    /\ [][/\ CompletesPut("Rejected") => keys_rejected' = keys_rejected + 1
          /\ CompletesPut("Accepted") => keys_rejected' = keys_rejected
          /\ keys_rejected' # keys_rejected => CompletesPut("Rejected")
          /\ (\E k \in Keys : Completes({"Put", "PutWithTTL"}, k)) =>
                /\ worker'.status \in {"Accepted", "Rejected"}
                /\ acks'[worker.pair.ack] = worker'.status]_vars

\* two puts were sent and both were acknowledged Rejected: the counter is 2
C29_Witness ==
    /\ Completed({"Put", "PutWithTTL"})
    /\ acks = <<"Rejected", "Rejected">>
    /\ next_id = 3
    /\ keys_rejected = 2
    /\ key_weights = <<>>
    /\ ~is_shutting_down

\* the step is a whole call of a mutator: it starts and returns at once
MutatorReturnsAtOnce == pc' = pc /\ ret'.op \in MutatorOps

\* C30: the shutdown check comes first in every mutating entry point.  Once
\* shutdown() has returned, a call of put, put_with_weight, put_with_ttl,
\* put_with_weight_and_ttl, delete or upsert gets no further than the check:
\* it returns the shutdown Err at once, also when its arguments would make
\* it panic on a running cache (a weight that is not positive, an upsert
\* with neither value nor existing entry).
C30_ShutdownCheckFirst ==
    [][ShutdownReturned =>
        /\ \A c \in Callers : pc[c] = "idle" => pc'[c] = "idle"
        /\ MutatorReturnsAtOnce =>
                /\ ret'.res \notin {"Panic", "PanicValueMissing"}
                /\ ret'.res = "Err"]_vars

(***************************************************************************)
(* CommandExecutor::shutdown() on an idle worker, as in the executor's     *)
(* test puts_a_key_value_and_shutdown: the executor is constructed, its    *)
(* worker blocks in recv() on the empty channel, shutdown() stores false   *)
(* into keep_running, and clients then send commands.  The facade's flag   *)
(* stays clear: only the executor was shut down.                           *)
(***************************************************************************)
ExecutorShutdownInit ==
    /\ is_shutting_down = FALSE
    /\ keep_running = FALSE
    /\ store = [k \in Keys |-> None]
    /\ soft_deleted = {}
    /\ key_weights = <<>>
    /\ weight_used = 0
    /\ keys_rejected = 0
    /\ ttl = {}
    /\ ttl_running = TRUE
    /\ channel = <<>>
    /\ receiver_dropped = FALSE
    /\ acks = <<>>
    /\ worker = Worker("recv", NoPair, "-")
    /\ next_id = 1
    /\ pc = [c \in Callers |-> "idle"]
    /\ local = [c \in Callers |-> NoLocal]
    /\ ret = NoReturn
    /\ pool = <<>>
    /\ freq = [h \in Hashes |-> NoFrequency]
    /\ now = 0

\* the bound on the puts of one run of the scenario: a put starts only while
\* fewer than MaxSends key ids were handed out
MaxSends == 2

ExecutorShutdownNext ==
    \/ \E c \in Callers : next_id <= MaxSends /\ Put(c)
    \/ \E c \in Callers, op \in PutOps \ {"put"} : next_id <= MaxSends /\ PutVariant(c, op)
    \/ \E c \in Callers : PutSend(c)
    \/ \E c \in Callers : Delete(c)
    \/ \E c \in Callers : DeleteSend(c)
    \/ \E c \in Callers : SendUpdateTTL(c)
    \/ WorkerRecv
    \/ WorkerPut
    \/ WorkerDelete
    \/ WorkerUpdateTtl

\* the worker thread runs whenever it has a pair to receive or to apply
ExecutorShutdownSpec ==
    /\ ExecutorShutdownInit
    /\ [][ExecutorShutdownNext]_vars
    /\ WF_vars(WorkerRecv)
    /\ WF_vars(WorkerPut)
    /\ WF_vars(WorkerDelete)
    /\ WF_vars(WorkerUpdateTtl)

\* the step returns the result of a send to its caller
SendReturns == ret'.op \in PutOps \cup {"delete", "update_ttl"} /\ ret'.res \in {"Ok", "Err"}

\* C31: after CommandExecutor::shutdown() on an idle worker the first command
\* sent is still received, applied (its effect is in place when its
\* acknowledgement is resolved) and acknowledged; the worker exits on exactly
\* that pair and drops the receiver; and every send made after the worker has
\* exited returns Err, queues nothing, creates no acknowledgement, and
\* nothing is applied any more.
C31_FirstCommandAfterShutdown ==
    /\ (Len(acks) >= 1) ~> (AckFinal(1) /\ worker.pc = "exited" /\ receiver_dropped)
    /\ [](worker.pc = "exited" <=> receiver_dropped)
    /\ [](worker.pc = "exited" => worker.pair.ack = 1 /\ AckFinal(1))
    /\ [][/\ FinishesPair =>
                /\ worker.pair.ack = 1
                /\ acks'[1] \in {"Accepted", "Rejected"}
                /\ EffectInPlace(worker.pair.command, worker.status)'
                /\ worker'.pc = "exited"
          /\ (receiver_dropped /\ SendReturns) =>
                /\ ret'.res = "Err"
                /\ UNCHANGED <<channel, acks>>
          /\ receiver_dropped =>
                /\ channel = <<>>
                /\ UNCHANGED <<store, key_weights, weight_used, ttl, worker, acks,
                               channel, receiver_dropped>>]_vars

\* the first put was accepted and is in the store, the worker has exited, and
\* a send made afterwards has just returned Err
C31_Witness ==
    /\ worker.pc = "exited"
    /\ receiver_dropped
    /\ acks = <<"Accepted">>
    /\ worker.pair.command.type = "Put"
    /\ EffectInPlace(worker.pair.command, "Accepted")
    /\ ret.op \in PutOps
    /\ ret.res = "Err"
    /\ next_id = 3

\* C32: once CacheD::shutdown() has been called and has returned, the worker
\* thread eventually terminates, also when no call is under way and no
\* further command is ever sent (the callers are under no fairness: they may
\* never call again).
C32_WorkerExitsAfterShutdown ==
    (ShutdownReturned /\ \A c \in Callers : pc[c] = "idle") ~> (worker.pc = "exited")

\* C33: the Key-Weight Table and weight_used change only in steps of the
\* command worker thread, the steps that finish the pair it received; no
\* step of the TTL scanner or of a caller changes them.
C33_TableMutatedByWorkerOnly ==
    [][(key_weights' # key_weights \/ weight_used' # weight_used) => FinishesPair]_vars

(***************************************************************************)
(* maybe_add as a function of its inputs: the worker has received a Put or *)
(* PutWithTTL for a new key_id while the cache holds any table the puts    *)
(* before it can have left (no, one or two resident keys within the total  *)
(* weight, each key estimated 0 or 1), and applies it.                     *)
(***************************************************************************)
\* the residents accepted with key_ids 1..n, the store holding their values
MaybeAddTables ==
    {kw \in UNION {[1..n -> [key : Keys, weight : Weights \ {0, TotalCacheWeight + 1}]] :
                   n \in 0..Cardinality(Keys)} :
        /\ \A i, j \in DOMAIN kw : kw[i].key = kw[j].key => i = j
        /\ SumOver([i \in DOMAIN kw |-> kw[i].weight], DOMAIN kw) <= TotalCacheWeight}

MaybeAddInit ==
    /\ is_shutting_down = FALSE
    /\ keep_running = TRUE
    /\ key_weights \in MaybeAddTables
    /\ store = [k \in Keys |->
                  IF \E i \in DOMAIN key_weights : key_weights[i].key = k
                  THEN Some(NeverExpiring("v1",
                            CHOOSE i \in DOMAIN key_weights : key_weights[i].key = k))
                  ELSE None]
    /\ soft_deleted = {}
    /\ weight_used = SumOver([i \in DOMAIN key_weights |-> key_weights[i].weight],
                             DOMAIN key_weights)
    /\ keys_rejected = 0
    /\ ttl = {}
    /\ ttl_running = TRUE
    /\ channel = <<>>
    /\ receiver_dropped = FALSE
    /\ acks = [i \in 1..(Len(key_weights) + 1) |->
                  IF i <= Len(key_weights) THEN "Accepted" ELSE "Pending"]
    /\ \E type \in {"Put", "PutWithTTL"}, key \in Keys, value \in Values,
          weight \in Weights \ {0} :
        worker = Worker("apply",
                        [command |-> Command(type, key, Len(key_weights) + 1, weight, value,
                                             IF type = "Put" THEN None ELSE Some(1)),
                         ack |-> Len(key_weights) + 1],
                        "Pending")
    /\ next_id = Len(key_weights) + 2
    /\ pc = [c \in Callers |-> "idle"]
    /\ local = [c \in Callers |-> NoLocal]
    /\ ret = NoReturn
    /\ pool = <<>>
    /\ freq \in [Hashes -> {NoFrequency, [doorkeeper |-> TRUE, counter |-> 0]}]
    /\ now = 0

MaybeAddNext == WorkerPut

MaybeAddSpec == MaybeAddInit /\ [][MaybeAddNext]_vars

\* the worker holds a received Put or PutWithTTL
AppliesPut == worker.pc = "apply" /\ worker.pair.command.type \in {"Put", "PutWithTTL"}

Hit(key) ==
    /\ ~is_shutting_down
    /\ store[key] # None
    /\ key \notin soft_deleted
    /\ \A e \in Unwrap(store[key]).expire_after : ~HasPassed(e)

\* the step is a read that recorded an access: pool or sketch change while
\* every caller of a mutator or of shutdown stays where it is
ReadRecords == pc' = pc /\ (pool' # pool \/ freq' # freq)

\* C35: get and get_ref send no command and change neither the Store, the
\* Key-Weight Table, weight_used nor the TTL Ticker; a read that records an
\* access is a hit (the key is resident, not marked deleted, not expired, the
\* cache not shut down) and records exactly one hash, the hash of the key
\* read: it joins the access buffer, or fills it and is counted with it.
C35_ReadsOnlyRecordHits ==
    [][ReadRecords =>
        /\ UNCHANGED <<store, soft_deleted, key_weights, weight_used, keys_rejected,
                       ttl, channel, acks, worker, next_id, receiver_dropped>>
        /\ \E key \in Keys :
            LET hash == KeyHash(key) IN
            /\ Hit(key)
            /\ \/ /\ Len(pool) + 1 < AccessBufferSize
                  /\ pool' = Append(pool, hash)
                  /\ freq' = freq
               \/ /\ Len(pool) + 1 = AccessBufferSize
                  /\ pool' = <<>>
                  /\ \A h \in Hashes :
                        Estimate(freq', h) =
                            Estimate(freq, h) + Occurrences(Append(pool, hash), h)]_vars

\* a read of the resident, unexpired key topic was recorded: its hash alone
\* is counted
C35_Witness ==
    /\ Hit("topic")
    /\ Unwrap(store["topic"]).expire_after # None
    /\ Estimate(freq, KeyHash("topic")) = 1
    /\ Estimate(freq, KeyHash("disk")) = 0
    /\ pool = <<>>
    /\ now > 0

\* the step is the worker finishing a Put or PutWithTTL with Rejected
RejectsPut ==
    /\ AppliesPut
    /\ FinishesPair
    /\ worker'.status = "Rejected"

\* C36 as stated: a put that ends Rejected evicts nothing: Store, Key-Weight
\* Table and weight_used are after the command what they were before it.
C36_RejectedPutEvictsNothing ==
    [][RejectsPut => UNCHANGED <<store, key_weights, weight_used>>]_vars

\* the keys of the key_ids the step evicted
VictimKeys == {key_weights[id].key : id \in Victims}

\* C36 amended: a put that ends Rejected adds nothing: the candidate is in
\* neither the Key-Weight Table nor the Store, and the TTL Ticker is as
\* before.  It evicts nothing when maybe_add rejects before any victim was
\* evicted (the candidate is heavier than total_cache_weight, or the first
\* sampled victim is more frequent): then Store, table and weight_used are
\* unchanged.  When it rejects after rounds of victim selection, the victims
\* of those rounds, each estimated at most as frequent as the candidate, stay
\* evicted: gone from table and Store, weight_used lower by their weights.
C36_RejectedPutKeepsEvictions ==
    [][RejectsPut =>
        LET command == worker.pair.command IN
        /\ ~Contains(key_weights', command.id)
        /\ command.id \notin StoredKeyIds'
        /\ ttl' = ttl
        /\ \A id \in DOMAIN key_weights' :
                Contains(key_weights, id) /\ key_weights'[id] = key_weights[id]
        /\ weight_used' = weight_used
                - SumOver([id \in Victims |-> key_weights[id].weight], Victims)
        /\ \A key \in Keys :
                store'[key] = IF key \in VictimKeys THEN None ELSE store[key]
        /\ \A id \in Victims :
                Estimate(freq, KeyHash(key_weights[id].key))
                    <= Estimate(freq, KeyHash(command.key))
        /\ command.weight > TotalCacheWeight => Victims = {}
        /\ Victims = {} => UNCHANGED <<store, key_weights, weight_used>>
        /\ Victims # {} =>
                \E id \in DOMAIN key_weights' :
                    Estimate(freq, KeyHash(key_weights[id].key))
                        > Estimate(freq, KeyHash(command.key))]_vars

\* the put of key_id 3 was Rejected after its first round evicted one of
\* the two residents: one resident is left and weight_used fell
C36_Witness ==
    /\ worker.pc = "recv"
    /\ worker.pair.command.id = 3
    /\ worker.status = "Rejected"
    /\ Cardinality(DOMAIN key_weights) = 1
    /\ Cardinality({k \in Keys : store[k] # None}) = 1
    /\ keys_rejected = 1
    /\ weight_used < TotalCacheWeight

\* the step removes the Store entry of key by an eviction: not by the
\* worker's Delete of the key and not by shutdown's store.clear()
RemovedByEviction(key) ==
    /\ store[key] # None
    /\ store'[key] = None
    /\ ~Completes({"Delete"}, key)
    /\ \A c \in Callers : pc[c] # "shutdown_clear_store"

\* C37: an eviction (of a victim inside maybe_add, or of an expired key_id by
\* the ticker's hook) removes a Store entry only if the entry's key_id is one
\* the step evicted from the Key-Weight Table: the value put again under a
\* newer key_id is not removed by the eviction of the key's older key_id.
C37_EvictionRemovesOwnEntry ==
    [][\A key \in Keys :
        RemovedByEviction(key) => Unwrap(store[key]).key_id \in Victims]_vars

\* C38: once every acknowledgement has completed and no call is under way,
\* every (key_id, expiry) mapping of the TTL Ticker belongs to a resident
\* Store entry with that key_id and that expire_after; no mapping is stale.
C38_NoStaleTickerMapping ==
    (AcknowledgementsCompleted /\ BetweenOperations) =>
        \A mapping \in ttl :
            \E k \in Keys :
                /\ store[k] # None
                /\ Unwrap(store[k]).key_id = mapping[1]
                /\ Unwrap(store[k]).expire_after = Some(mapping[2])

\* caller c's upsert took the time to live off a resident entry that had
\* one, by a request with neither value nor weight
RemovedTtlOnly(c) ==
    /\ local[c].expiry_update = "Deleted"
    /\ local[c].updated_weight = None

\* C39: upsert(k, remove_time_to_live) with no value and no weight on a
\* resident key that has a TTL never panics: it goes on to send
\* UpdateWeight(key_id, weight) with weight > 0 (or gets Err from a closed
\* channel), whatever positive weight the key was put with and also when the
\* key_id has meanwhile left the Key-Weight Table.
C39_RemoveTtlNeverPanics ==
    [][\A c \in Callers :
        (FinishesUpsert(c) /\ RemovedTtlOnly(c)) =>
            /\ ret'.res \in {"Ok", "Err"}
            /\ ret'.res = "Ok" =>
                /\ Enqueued.type = "UpdateWeight"
                /\ Enqueued.id = local[c].key_id
                /\ Enqueued.weight > 0]_vars

(***************************************************************************)
(* One client writing twice to a resident key without awaiting: on the     *)
(* cache of the upsert tests (both keys resident with value "v1") the      *)
(* client calls a put of ("topic", "v1") and, once the put has returned    *)
(* its acknowledgement, upsert("topic", value = "v2"); the worker runs     *)
(* beside it.                                                              *)
(***************************************************************************)
Writer == "c1"

PutThenUpsertInit == UpsertInit

PutThenUpsertNext ==
    \/ Len(acks) = 0 /\ Put(Writer)
    \/ \E op \in PutOps \ {"put"} : Len(acks) = 0 /\ PutVariant(Writer, op)
    \/ /\ PutSend(Writer)
       /\ ret'.res = "Ok" => (Enqueued.key = "topic" /\ Enqueued.value = "v1")
    \/ Len(acks) = 1 /\ Upsert(Writer)
    \/ /\ UpsertUpdate(Writer)
       /\ ret'.request.key = "topic"
       /\ ret'.request.value = Some("v2")
    \/ UpsertFinish(Writer)
    \/ WorkerRecv
    \/ WorkerPut
    \/ WorkerUpdateWeight

PutThenUpsertSpec == PutThenUpsertInit /\ [][PutThenUpsertNext]_vars

\* C40: a caller's writes to one key take effect in call order also across
\* put and upsert: after put("topic", "v1") and then upsert("topic", value =
\* "v2") on the resident key, issued without awaiting in between, and once
\* both acknowledgements have completed, get("topic") returns "v2".
C40_PutThenUpsertInOrder ==
    (AcknowledgementsCompleted /\ Len(acks) = 2) => get("topic") = Some("v2")

(***************************************************************************)
(* Calls on a populated cache: one or both keys were put, each with or     *)
(* without a time_to_live of 1 at time 0, and the acknowledgements         *)
(* awaited.  The clients' calls then start before any of them has sent a   *)
(* command, while the worker, the TTL ticker and the clock run.            *)
(***************************************************************************)
PopulatedInit ==
    /\ is_shutting_down = FALSE
    /\ keep_running = TRUE
    /\ \E resident \in (SUBSET Keys) \ {{}}, expiring \in SUBSET Keys :
        /\ expiring \subseteq resident
        /\ store = [k \in Keys |->
                      IF k \in resident
                      THEN Some([value |-> "v1", key_id |-> PutKeyId(k),
                                 expire_after |-> IF k \in expiring THEN Some(1) ELSE None])
                      ELSE None]
        /\ key_weights = [id \in {PutKeyId(k) : k \in resident} |->
                            [key |-> CHOOSE k \in Keys : PutKeyId(k) = id,
                             weight |-> PutWeight(CHOOSE k \in Keys : PutKeyId(k) = id)]]
        /\ weight_used = SumOver([k \in Keys |-> PutWeight(k)], resident)
        /\ ttl = {<<PutKeyId(k), 1>> : k \in expiring}
    /\ soft_deleted = {}
    /\ keys_rejected = 0
    /\ ttl_running = TRUE
    /\ channel = <<>>
    /\ receiver_dropped = FALSE
    /\ acks = <<>>
    /\ worker = Worker("recv", NoPair, "-")
    /\ next_id = Cardinality(Keys) + 1
    /\ pc = [c \in Callers |-> "idle"]
    /\ local = [c \in Callers |-> NoLocal]
    /\ ret = NoReturn
    /\ pool = <<>>
    /\ freq = [h \in Hashes |-> NoFrequency]
    /\ now = 0

\* no call has sent its command yet
NothingSent == Len(acks) = 0

\* puts and deletes: the calls of the two clients race, each client creates at
\* most one command
PutDeleteNext ==
    \/ \E c \in Callers : NothingSent /\ Put(c)
    \/ \E c \in Callers, op \in PutOps \ {"put"} : NothingSent /\ PutVariant(c, op)
    \/ \E c \in Callers : PutSend(c)
    \/ \E c \in Callers : NothingSent /\ Delete(c)
    \/ \E c \in Callers : DeleteSend(c)
    \/ WorkerRecv
    \/ WorkerPut
    \/ WorkerDelete
    \/ TtlEvict
    \/ ClockAdvance

PutDeleteSpec == PopulatedInit /\ [][PutDeleteNext]_vars

\* upserts, one call at a time: an upsert of a resident key updates the entry
\* in place, an upsert of a key that is absent (or was evicted by the TTL
\* scan) acts as a put
UpsertCallNext ==
    \/ \E c \in Callers : NothingSent /\ AcknowledgementsCompleted /\ Upsert(c)
    \/ \E c \in Callers : UpsertUpdate(c)
    \/ \E c \in Callers : UpsertFinish(c)
    \/ WorkerRecv
    \/ WorkerPut
    \/ WorkerUpdateWeight
    \/ TtlEvict
    \/ ClockAdvance

UpsertCallSpec == PopulatedInit /\ [][UpsertCallNext]_vars

\* reads beside deletes and shutdown: any thread reads while the clients
\* delete and shut the cache down
ReadNext ==
    \/ Get
    \/ GetRef
    \/ \E c \in Callers : NothingSent /\ Delete(c)
    \/ \E c \in Callers : DeleteSend(c)
    \/ \E c \in Callers : Shutdown(c)
    \/ \E c \in Callers : ShutdownClearStore(c)
    \/ \E c \in Callers : ShutdownClearPolicy(c)
    \/ \E c \in Callers : ShutdownClearTtl(c)
    \/ WorkerRecv
    \/ WorkerDelete
    \/ TtlEvict
    \/ ClockAdvance

ReadSpec == PopulatedInit /\ [][ReadNext]_vars

====
